---- MODULE Spec2Model ----
(***************************************************************************)
(* ChatKet real-time delivery core: the rate limiter                       *)
(* (chat/rate-limit.service.ts), the presence tracker (PresenceService),   *)
(* the dedupe ledger (ChatService.sendMessage) and the gateway handlers    *)
(* (chat/chat.gateway.ts) that drive them.                                 *)
(***************************************************************************)
EXTENDS Integers, Sequences, FiniteSets, TLC

(***************************************************************************)
(* Bounds of the model.                                                    *)
(***************************************************************************)
MaxTicks == 9
MaxSockets == 2
MaxEvents == 2
MaxCalls == 2
MaxBatch == 2
MaxStored == 102

(***************************************************************************)
(* Program constants.                                                      *)
(***************************************************************************)
windowMs == 10 * 1000
maxMessages == 5
MaxTextLen == 500
\* no message id
NoMsg == 0
\* getMessagesSince: take Math.min(limit, 100)
SyncLimit == 100
\* a payload without lastSeenAt
NoSince == -1
\* new Date(0): before every time of the model, whose clock starts at 0
Epoch == -1000000000
muteDurationMs == 30 * 1000
onlineTimeoutMs == 30 * 1000
\* getSocketId: null
NoSocket == 0
\* mutedUntil: null; the code tests it by truthiness, so null and 0 coincide
NoMute == 0

\* the clock advances in steps of half a rate window
TickMs == windowMs \div 2

Users == {"u1", "u2"}
Rooms == {"r1", "r2"}
\* the (user, room) pairs whose rate windows are exercised
RateKeys == {<<"u1", "r1">>}
\* the pairs of the isolation check: one user in two rooms, two users in one room
PairKeys == {<<"u1", "r1">>, <<"u1", "r2">>, <<"u2", "r1">>}
AllKeys == Users \X Rooms
\* connection ids: socket.io gives every connection a fresh id
Sockets == 1..MaxSockets
\* the membership store: RoomMembership rows (roomId, userId)
Membership == {<<"u1", "r1">>, <<"u1", "r2">>, <<"u2", "r1">>}
\* clientMsgId values
Tokens == {"t1", "t2"}
\* message texts as run lengths: leading whitespace, trimmed core, trailing whitespace
SendTexts == {[lead |-> 1, core |-> 2, trail |-> 1], [lead |-> 2, core |-> 0, trail |-> 0]}
\* the sizes of the message table a sync starts from
\* texts around the limits of sendMessage's validation: whitespace only, one
\* character, 500 and 501 characters, bare and wrapped in whitespace
EdgeTexts == {[lead |-> 2, core |-> 0, trail |-> 0],
              [lead |-> 1, core |-> 1, trail |-> 1],
              [lead |-> 0, core |-> MaxTextLen, trail |-> 0],
              [lead |-> 1, core |-> MaxTextLen, trail |-> 1],
              [lead |-> 0, core |-> MaxTextLen + 1, trail |-> 0],
              [lead |-> 1, core |-> MaxTextLen + 1, trail |-> 1]}
StoredCounts == {0, 3, MaxStored}
\* lastSeenAt values of a sync request: absent, or the time of the last message but one
SyncSinces == {NoSince, -2 * windowMs}
SyncRequests == [roomId : Rooms, lastSeenAt : SyncSinces]
\* payload.rooms
SyncBatches == UNION {[1..n -> SyncRequests] : n \in 0..MaxBatch}
\* client.data.user before authentication
NoUser == "none"
\* a handshake whose token is missing, fails verification or names no user
BadCred == "bad"

VARIABLES
    now,            \* Date.now()
    rateLimitMap,   \* RateLimitService.rateLimitMap: key -> RateLimitEntry
    rlLast,         \* the last checkAndRecord call: its key, time and result
    rlAllowedLog,   \* history: per key, the times of the allowed calls still in the trailing window
    rlFresh,        \* history: per key, the calls made since the window was last found empty or unmuted
    rlUnswept,      \* history: the rate map as it would be if cleanup had never run
    rlMuteSet,      \* history: per key, the mutedUntil set by the last over-limit rejection
    presenceMap,    \* PresenceService.presenceMap: userId -> PresenceEntry
    socketToUser,   \* PresenceService.socketToUser: socketId -> userId
    roomUsers,      \* PresenceService.roomUsers: roomId -> Set<userId>
    sockets,        \* the gateway's connections: phase, handshake credential, data.user, joined rooms
    hConn,          \* per connection, the position of handleConnection
    hDisc,          \* per connection, the position of handleDisconnect
    hEvt,           \* per connection, the client event handler in flight
    nEvents,        \* the number of room:join and room:leave events received so far
    messages,       \* the Message table, in creation order
    dedupes,        \* the MessageDedupe table, unique on (roomId, userId, clientMsgId)
    newCount,       \* per message, how often message:new was broadcast to its room
    sends,          \* the message:send calls: payload, position, result and ack
    outbox          \* what the last handler step put on the wire: emits and acks, in order

rateVars == <<now, rateLimitMap, rlLast, rlAllowedLog, rlFresh, rlMuteSet, rlUnswept>>
presenceVars == <<presenceMap, socketToUser, roomUsers>>
gatewayVars == <<sockets, hConn, hDisc, hEvt, nEvents>>
storeVars == <<messages, dedupes>>
sendVars == <<newCount, sends>>
vars == <<now, rateLimitMap, rlLast, rlAllowedLog, rlFresh, rlMuteSet, rlUnswept,
          presenceMap, socketToUser, roomUsers, sockets, hConn, hDisc, hEvt, nEvents,
          messages, dedupes, newCount, sends, outbox>>

(***************************************************************************)
(* Helpers.                                                                *)
(***************************************************************************)
MapPut(m, k, v) == [x \in (DOMAIN m) \cup {k} |-> IF x = k THEN v ELSE m[x]]
MapDel(m, k) == [x \in (DOMAIN m) \ {k} |-> m[x]]
EmptyMap == [x \in {} |-> 0]

\* Array.prototype.filter((t) => t > windowStart)
FilterAfter(ts, windowStart) == SelectSeq(ts, LAMBDA t : t > windowStart)

(***************************************************************************)
(* What a handler step puts on the wire.                                   *)
(***************************************************************************)
\* server.to(roomId).emit(ev, ...)
ToRoom(ev, roomId, type, msg) ==
    [scope |-> "room", ev |-> ev, socket |-> 0, room |-> roomId, type |-> type,
     msg |-> msg, ok |-> TRUE, results |-> <<>>]
ToClientMutant(ev, s, roomId, type, msg) == ToRoom(ev, roomId, type, msg)

\* client.emit(ev, ...)
ToClient(ev, s, roomId, type, msg) ==
    [scope |-> "client", ev |-> ev, socket |-> s, room |-> roomId, type |-> type,
     msg |-> msg, ok |-> TRUE, results |-> <<>>]
ToOthersMutant(ev, s, roomId) == ToRoom(ev, roomId, "", 0)

\* client.to(roomId).emit(ev, ...): the room without the client itself
ToOthers(ev, s, roomId) ==
    [scope |-> "others", ev |-> ev, socket |-> s, room |-> roomId, type |-> "",
     msg |-> 0, ok |-> TRUE, results |-> <<>>]
\* the value a handler returns: the ack of the event
AckOf(ev, s, success, error) ==
    [scope |-> "ack", ev |-> ev, socket |-> s, room |-> "", type |-> error,
     msg |-> 0, ok |-> success, results |-> <<>>]
\* the ack of rooms:sync: { success, results } or { success, error }
SyncAck(s, success, error, results) ==
    [AckOf("rooms:sync", s, success, error) EXCEPT !.results = results]
\* the emits of a step, acks left out
Emits(box) == SelectSeq(box, LAMBDA e : e.scope # "ack")
Acks(box) == SelectSeq(box, LAMBDA e : e.scope = "ack")
\* the connections an emit is delivered to, given the room subscriptions
Receivers(e, socks) ==
    IF e.scope = "client" THEN {e.socket}
    ELSE IF e.scope = "room" THEN {x \in DOMAIN socks : e.room \in socks[x].rooms}
    ELSE IF e.scope = "others"
         THEN {x \in DOMAIN socks : e.room \in socks[x].rooms} \ {e.socket}
    ELSE {}

(***************************************************************************)
(* RateLimitService.checkAndRecord                                         *)
(***************************************************************************)
NewEntry == [timestamps |-> <<>>, mutedUntil |-> NoMute]

RLGet(k) == IF k \in DOMAIN rateLimitMap THEN rateLimitMap[k] ELSE NewEntry

RLActiveMute(e, t) == e.mutedUntil # NoMute /\ t < e.mutedUntil

\* the entry after the "clear mute if expired" block
RLMutantKeepMute(e, t) ==
    IF e.mutedUntil # NoMute /\ t >= e.mutedUntil
    THEN [timestamps |-> <<>>, mutedUntil |-> e.mutedUntil]
    ELSE e

RLClearExpired(e, t) ==
    IF e.mutedUntil # NoMute /\ t >= e.mutedUntil
    THEN [timestamps |-> <<>>, mutedUntil |-> NoMute]
    ELSE e

\* the entry after the filter to the current window
RLFiltered(e, t) ==
    LET c == RLClearExpired(e, t)
    IN  [c EXCEPT !.timestamps = FilterAfter(c.timestamps, t - windowMs)]

RLMutantOverLimit(f) == Len(f.timestamps) > maxMessages

RLOverLimit(f) == Len(f.timestamps) >= maxMessages

RLMutantMuteFrom(e, t) == t + muteDurationMs

\* the expiry of a mute: an active one is kept, an over-limit call sets a new one
RLMuteFrom(e, t) == IF RLActiveMute(e, t) THEN e.mutedUntil ELSE t + muteDurationMs

\* the RateLimitResult of a call at time t that finds entry e
RLResult(e, t) ==
    IF RLActiveMute(e, t)
    THEN [allowed |-> FALSE, mutedUntil |-> RLMuteFrom(e, t)]
    ELSE IF RLOverLimit(RLFiltered(e, t))
         THEN [allowed |-> FALSE, mutedUntil |-> RLMuteFrom(e, t)]
         ELSE [allowed |-> TRUE, mutedUntil |-> NoMute]

\* the error text of a rejected call
RLError(e, t) ==
    IF RLActiveMute(e, t)
    THEN "You are muted due to rate limit violation"
    ELSE "Rate limit exceeded. You are muted for 30 seconds."

\* the entry the call leaves in the map
RLEntryAfter(e, t) ==
    IF RLActiveMute(e, t)
    THEN [e EXCEPT !.mutedUntil = RLMuteFrom(e, t)]
    ELSE LET f == RLFiltered(e, t)
         IN  IF RLOverLimit(f)
             THEN [f EXCEPT !.mutedUntil = RLMuteFrom(e, t)]
             ELSE [f EXCEPT !.timestamps = Append(f.timestamps, t)]

\* history bookkeeping of the calls (reads results only, never the entry's code path)
NoFresh == [kind |-> "none", at |-> 0, calls |-> 0, denied |-> 0, last |-> 0]

GhostMuted(k) == rlMuteSet[k] # NoMute /\ now < rlMuteSet[k]

GhostUnmuting(k) == rlMuteSet[k] # NoMute /\ now > rlMuteSet[k]

\* no mute set and no timestamp in the trailing window
WindowEmpty(e) ==
    e.mutedUntil = NoMute /\ FilterAfter(e.timestamps, now - windowMs) = <<>>

FreshAfter(k, e, res) ==
    IF WindowEmpty(e) \/ GhostUnmuting(k)
    THEN [kind |-> IF GhostUnmuting(k) THEN "unmute" ELSE "empty",
          at |-> now, calls |-> 1,
          denied |-> IF res.allowed THEN 0 ELSE 1, last |-> now]
    ELSE IF rlFresh[k].kind = "none" \/ rlFresh[k].calls >= maxMessages
         THEN NoFresh
         ELSE [rlFresh[k] EXCEPT !.calls = @ + 1,
                                 !.denied = IF res.allowed THEN @ ELSE @ + 1,
                                 !.last = now]

\* the entry the call would find if cleanup had never deleted anything
RLGetUnswept(k) == IF k \in DOMAIN rlUnswept THEN rlUnswept[k] ELSE NewEntry

RLKeyMutant(userId, roomId) == <<userId, "r1">>

\* const key = `${userId}:${roomId}`
RLKey(userId, roomId) == <<userId, roomId>>

CheckAndRecord(userId, roomId) ==
    LET k == RLKey(userId, roomId)
        pair == <<userId, roomId>>
        e == RLGet(k)
        res == RLResult(e, now)
    IN  /\ rateLimitMap' = MapPut(rateLimitMap, k, RLEntryAfter(e, now))
        /\ rlLast' = [valid |-> TRUE, key |-> pair, at |-> now,
                      allowed |-> res.allowed, mutedUntil |-> res.mutedUntil,
                      pre |-> e, post |-> rateLimitMap'[k],
                      muteBefore |-> rlMuteSet[pair],
                      unsweptPre |-> RLGetUnswept(k),
                      unswept |-> RLResult(RLGetUnswept(k), now)]
        /\ rlUnswept' = MapPut(rlUnswept, k, RLEntryAfter(RLGetUnswept(k), now))
        /\ rlAllowedLog' = [rlAllowedLog EXCEPT ![pair] =
                               IF res.allowed THEN Append(@, now) ELSE @]
        /\ rlFresh' = [rlFresh EXCEPT ![pair] = FreshAfter(pair, e, res)]
        /\ rlMuteSet' = [rlMuteSet EXCEPT ![pair] =
                            IF GhostMuted(pair) THEN @
                            ELSE IF res.allowed THEN NoMute ELSE res.mutedUntil]

(***************************************************************************)
(* RateLimitService.cleanup (the 60 s sweep)                               *)
(***************************************************************************)
RLHasRecent(e, t) == FilterAfter(e.timestamps, t - windowMs) # <<>>

RLHasActiveMute(e, t) == e.mutedUntil # NoMute /\ e.mutedUntil > t

RLEvictableMutant(e, t) == ~RLHasRecent(e, t)

RLEvictable(e, t) == ~RLHasRecent(e, t) /\ ~RLHasActiveMute(e, t)

Cleanup ==
    /\ rateLimitMap' = [k \in {x \in DOMAIN rateLimitMap :
                                  ~RLEvictable(rateLimitMap[x], now)} |-> rateLimitMap[k]]
    /\ UNCHANGED <<now, rlLast, rlAllowedLog, rlFresh, rlMuteSet, rlUnswept>>
    /\ UNCHANGED <<presenceVars, gatewayVars>>
    /\ UNCHANGED <<storeVars, sendVars>>
    /\ outbox' = <<>>

(***************************************************************************)
(* The clock.                                                              *)
(***************************************************************************)
Tick ==
    /\ now < MaxTicks * TickMs
    /\ now' = now + TickMs
    /\ rlAllowedLog' = [k \in AllKeys |->
                           FilterAfter(rlAllowedLog[k], now' - windowMs)]
    /\ UNCHANGED <<rateLimitMap, rlLast, rlFresh, rlMuteSet, rlUnswept>>
    /\ UNCHANGED <<presenceVars, gatewayVars>>
    /\ UNCHANGED <<storeVars, sendVars>>
    /\ outbox' = <<>>

RateLimitCall(userId, roomId) ==
    /\ CheckAndRecord(userId, roomId)
    /\ UNCHANGED <<now, presenceVars, gatewayVars>>
    /\ UNCHANGED <<storeVars, sendVars>>
    /\ outbox' = <<>>

InitRate ==
    /\ now = 0
    /\ rateLimitMap = EmptyMap
    /\ rlLast = [valid |-> FALSE, key |-> <<"u1", "r1">>, at |-> 0,
                 allowed |-> TRUE, mutedUntil |-> NoMute,
                 pre |-> NewEntry, post |-> NewEntry, muteBefore |-> NoMute,
                 unsweptPre |-> NewEntry,
                 unswept |-> [allowed |-> TRUE, mutedUntil |-> NoMute]]
    /\ rlUnswept = EmptyMap
    /\ rlAllowedLog = [k \in AllKeys |-> <<>>]
    /\ rlFresh = [k \in AllKeys |-> NoFresh]
    /\ rlMuteSet = [k \in AllKeys |-> NoMute]

(***************************************************************************)
(* PresenceService                                                         *)
(***************************************************************************)
\* a JS Set kept as the sequence of its members in insertion order
SetAdd(q, x) == IF \E i \in 1..Len(q) : q[i] = x THEN q ELSE Append(q, x)
SetDelete(q, x) == SelectSeq(q, LAMBDA y : y # x)
SetHas(q, x) == \E i \in 1..Len(q) : q[i] = x
Members(q) == {q[i] : i \in 1..Len(q)}

\* getRoomUsers(roomId)
GetRoomUsers(ru, roomId) == IF roomId \in DOMAIN ru THEN ru[roomId] ELSE {}

\* connect(userId, socketId): the reverse index after the call
ConnectMutantIndex(pm, s2u, userId, socketId) == MapPut(s2u, socketId, userId)

ConnectIndex(pm, s2u, userId, socketId) ==
    LET cleaned == IF userId \in DOMAIN pm /\ pm[userId].socketId # socketId
                   THEN MapDel(s2u, pm[userId].socketId)
                   ELSE s2u
    IN  MapPut(cleaned, socketId, userId)

\* connect(userId, socketId): the presence map after the call
ConnectEntryMutant(pm, userId, socketId) ==
    IF userId \in DOMAIN pm THEN pm
    ELSE MapPut(pm, userId, [lastPing |-> now, socketId |-> socketId, roomIds |-> <<>>])

ConnectEntry(pm, userId, socketId) ==
    MapPut(pm, userId,
           [lastPing |-> now, socketId |-> socketId,
            roomIds |-> IF userId \in DOMAIN pm THEN pm[userId].roomIds ELSE <<>>])

\* joinRoom(userId, roomId)
JoinRoomEntry(pm, userId, roomId) ==
    IF userId \in DOMAIN pm
    THEN [pm EXCEPT ![userId].roomIds = SetAdd(@, roomId)]
    ELSE pm

JoinRoomRoster(ru, userId, roomId) ==
    MapPut(ru, roomId, GetRoomUsers(ru, roomId) \cup {userId})

\* leaveRoom(userId, roomId)
LeaveRoomEntry(pm, userId, roomId) ==
    IF userId \in DOMAIN pm
    THEN [pm EXCEPT ![userId].roomIds = SetDelete(@, roomId)]
    ELSE pm

LeaveRoomRoster(ru, userId, roomId) ==
    IF roomId \in DOMAIN ru
    THEN IF ru[roomId] \ {userId} = {}
         THEN MapDel(ru, roomId)
         ELSE [ru EXCEPT ![roomId] = @ \ {userId}]
    ELSE ru

\* the loop of disconnect over roomIds: leaveRoom(userId, roomId) for each
RECURSIVE LeaveAllRoster(_, _, _)
LeaveAllRoster(ru, userId, rooms) ==
    IF rooms = <<>> THEN ru
    ELSE LeaveAllRoster(LeaveRoomRoster(ru, userId, Head(rooms)), userId, Tail(rooms))

\* disconnect(socketId): null (FALSE) or the userId and roomIds it returns
DisconnectResult(pm, s2u, socketId) ==
    IF socketId \notin DOMAIN s2u
    THEN [found |-> FALSE, userId |-> NoUser, roomIds |-> <<>>]
    ELSE LET userId == s2u[socketId]
         IN  [found |-> TRUE, userId |-> userId,
              roomIds |-> IF userId \in DOMAIN pm THEN pm[userId].roomIds ELSE <<>>]

PingEntryMutant(pm, userId) == pm

\* ping(userId)
PingEntry(pm, userId) ==
    IF userId \in DOMAIN pm THEN [pm EXCEPT ![userId].lastPing = now] ELSE pm

\* getStatus(userId) at time t
GetStatusMutant(pm, userId, t) ==
    IF userId \notin DOMAIN pm THEN "offline" ELSE "online"

GetStatus(pm, userId, t) ==
    IF userId \notin DOMAIN pm THEN "offline"
    ELSE IF t - pm[userId].lastPing > onlineTimeoutMs THEN "offline"
    ELSE "online"

\* getSocketId(userId)
GetSocketId(pm, userId) ==
    IF userId \in DOMAIN pm THEN pm[userId].socketId ELSE NoSocket

\* checkTimeouts, the 10 s sweep: it walks the map and changes nothing
CheckTimeouts ==
    /\ outbox' = <<>>
    /\ UNCHANGED <<rateVars, presenceVars, gatewayVars, storeVars, sendVars>>

(***************************************************************************)
(* The membership store: RoomsService.isMember                             *)
(***************************************************************************)
IsMemberMutant(userId, roomId) == TRUE

IsMember(userId, roomId) == <<userId, roomId>> \in Membership

(***************************************************************************)
(* ChatService.getMessagesSince                                            *)
(***************************************************************************)
\* the first n elements of a sequence
Take(q, n) == IF Len(q) <= n THEN q ELSE SubSeq(q, 1, n)

\* findMany where roomId and createdAt > since, ordered by createdAt, capped;
\* the table is kept in creation order, which is ascending createdAt
GetMessagesSinceMutant(roomId, since) ==
    SelectSeq(messages, LAMBDA m : m.roomId = roomId /\ m.createdAt > since)

GetMessagesSince(roomId, since) ==
    Take(SelectSeq(messages, LAMBDA m : m.roomId = roomId /\ m.createdAt > since),
         SyncLimit)

\* for (const msg of missedMessages) client.emit('message:new', msg)
MissedEmits(s, missed) ==
    [i \in 1..Len(missed) |->
        ToClient("message:new", s, missed[i].roomId, "", missed[i].id)]

(***************************************************************************)
(* ChatGateway.broadcastRoster and sendRosterToClient: the users array     *)
(***************************************************************************)
\* server.sockets.sockets.get(socketId)?.data.user
LiveUser(socks, socketId) ==
    IF socketId \in DOMAIN socks /\ socks[socketId].phase = "open"
    THEN socks[socketId].user ELSE NoUser

RosterUsers(pm, ru, socks, roomId, t) ==
    {[id |-> LiveUser(socks, GetSocketId(pm, u)), status |-> GetStatus(pm, u, t)] :
        u \in {x \in GetRoomUsers(ru, roomId) :
                  /\ GetSocketId(pm, x) # NoSocket
                  /\ LiveUser(socks, GetSocketId(pm, x)) # NoUser}}

(***************************************************************************)
(* ChatGateway: connections                                                *)
(***************************************************************************)
NoDisc == [pc |-> "none", bound |-> FALSE, userId |-> NoUser, roomIds |-> <<>>, i |-> 0]
\* changed is history: whether the running room:join or room:leave handler has
\* altered a subscription, a presence room set or a roster
NoEvt == [kind |-> "none", pc |-> "none", userId |-> NoUser, roomId |-> "r1",
          fetch |-> FALSE, since |-> NoSince, rooms |-> <<>>, i |-> 0, results |-> <<>>,
          changed |-> FALSE]

\* handleDisconnect up to its first await: presenceService.disconnect and the
\* roster broadcast of the first room returned
HandleDisconnectStart(s) ==
    LET res == DisconnectResult(presenceMap, socketToUser, s)
        notify == res.found /\ res.roomIds # <<>>
    IN  /\ roomUsers' = IF res.found
                        THEN LeaveAllRoster(roomUsers, res.userId, res.roomIds)
                        ELSE roomUsers
        /\ presenceMap' = IF res.found THEN MapDel(presenceMap, res.userId) ELSE presenceMap
        /\ socketToUser' = IF res.found THEN MapDel(socketToUser, s) ELSE socketToUser
        /\ hDisc' = [hDisc EXCEPT ![s] =
              IF notify
              THEN [pc |-> "system", bound |-> TRUE, userId |-> res.userId,
                    roomIds |-> res.roomIds, i |-> 1]
              ELSE [NoDisc EXCEPT !.pc = "done"]]
        /\ outbox' = IF notify
                     THEN <<ToRoom("room:roster", res.roomIds[1], "", 0)>>
                     ELSE <<>>

\* socket.io closes the socket: it leaves its rooms, then 'disconnect' fires
CloseSocket(s) ==
    /\ sockets' = [sockets EXCEPT ![s].phase = "closed", ![s].rooms = {}]
    /\ HandleDisconnectStart(s)

\* a handshake value: undefined, a string, or something that is not a string
NoField == [kind |-> "undefined", value |-> ""]
Str(v) == [kind |-> "string", value |-> v]
NotStr(kind, v) == [kind |-> kind, value |-> v]
\* the Authorization header: its first seven characters and the rest
NoHeader == [kind |-> "undefined", prefix |-> "", rest |-> ""]
Header(prefix, rest) == [kind |-> "string", prefix |-> prefix, rest |-> rest]
NoHandshake == [auth |-> NoField, header |-> NoHeader, query |-> NoField]

\* handshake.auth.token, headers.authorization and query.token as a client
\* can send them (the HTTP parser strips trailing blanks, so "Bearer " alone
\* does not arrive)
AuthFields == {NoField, Str(""), Str("jwt1"), Str("forged"), NotStr("object", "jwt2")}
HeaderFields == {NoHeader, Header("Basic x", "yz"), Header("Bearer ", "jwt2"),
                 Header("Bearer ", "forged")}
QueryFields == {NoField, Str(""), Str("jwt1"), Str("forged"), NotStr("array", "jwt1")}
Handshakes == [auth : AuthFields, header : HeaderFields, query : QueryFields]

\* JS truthiness of a handshake value
Truthy(f) == f.kind # "undefined" /\ ~(f.kind = "string" /\ f.value = "")

ExtractTokenMutant(h) ==
    IF Truthy(h.auth) THEN h.auth
    ELSE IF Truthy(h.query) /\ h.query.kind = "string" THEN h.query
    ELSE IF h.header.kind = "string" /\ h.header.prefix = "Bearer " THEN Str(h.header.rest)
    ELSE NoField

\* extractToken(client): auth.token, else the Bearer header, else query.token
ExtractToken(h) ==
    IF Truthy(h.auth) THEN h.auth
    ELSE IF h.header.kind = "string" /\ h.header.prefix = "Bearer " THEN Str(h.header.rest)
    ELSE IF Truthy(h.query) /\ h.query.kind = "string" THEN h.query
    ELSE NoField

\* authenticateSocket: no token, a failing jwtService.verify or an unknown
\* user give null; else the user of the token
ResolveUser(token) ==
    IF ~Truthy(token) \/ token.kind # "string" THEN BadCred
    ELSE IF token.value = "jwt1" THEN "u1"
    ELSE IF token.value = "jwt2" THEN "u2"
    ELSE BadCred

\* a transport connects: handleConnection runs up to await authenticateSocket
Open(s, cred) ==
    /\ sockets[s].phase = "idle"
    /\ IF s = 1 THEN TRUE ELSE sockets[s - 1].phase # "idle"
    /\ sockets' = [sockets EXCEPT ![s].phase = "open", ![s].cred = cred]
    /\ hConn' = [hConn EXCEPT ![s] = "auth"]
    /\ UNCHANGED <<rateVars, presenceVars, hDisc, hEvt, nEvents>>
    /\ UNCHANGED <<storeVars, sendVars>>
    /\ outbox' = <<>>

\* a transport connects with handshake h: extractToken and the verifier run,
\* handleConnection awaits the user lookup
Handshake(s, h) ==
    /\ sockets[s].phase = "idle"
    /\ IF s = 1 THEN TRUE ELSE sockets[s - 1].phase # "idle"
    /\ sockets' = [sockets EXCEPT ![s].phase = "open", ![s].handshake = h,
                                  ![s].token = ExtractToken(h),
                                  ![s].cred = ResolveUser(ExtractToken(h))]
    /\ hConn' = [hConn EXCEPT ![s] = "auth"]
    /\ UNCHANGED <<rateVars, presenceVars, hDisc, hEvt, nEvents>>
    /\ UNCHANGED <<storeVars, sendVars>>
    /\ outbox' = <<>>

\* handleConnection after authenticateSocket: an unknown user is disconnected
AuthRejected(s) ==
    /\ hConn[s] = "auth"
    /\ sockets[s].cred = BadCred
    /\ hConn' = [hConn EXCEPT ![s] = "done"]
    /\ IF sockets[s].phase = "open"
       THEN CloseSocket(s)
       ELSE UNCHANGED <<sockets, presenceVars, hDisc>> /\ outbox' = <<>>
    /\ UNCHANGED <<rateVars, hEvt, nEvents>>
    /\ UNCHANGED <<storeVars, sendVars>>

\* handleConnection after authenticateSocket: data.user is set, presence registered
AuthAccepted(s) ==
    /\ hConn[s] = "auth"
    /\ sockets[s].cred # BadCred
    /\ hConn' = [hConn EXCEPT ![s] = "done"]
    /\ sockets' = [sockets EXCEPT ![s].user = sockets[s].cred]
    /\ presenceMap' = ConnectEntry(presenceMap, sockets[s].cred, s)
    /\ socketToUser' = ConnectIndex(presenceMap, socketToUser, sockets[s].cred, s)
    /\ UNCHANGED <<rateVars, roomUsers, hDisc, hEvt, nEvents>>
    /\ UNCHANGED <<storeVars, sendVars>>
    /\ outbox' = <<>>

\* the transport goes away: handleDisconnect starts
TransportClose(s) ==
    /\ sockets[s].phase = "open"
    /\ CloseSocket(s)
    /\ UNCHANGED <<rateVars, hConn, hEvt, nEvents>>
    /\ UNCHANGED <<storeVars, sendVars>>

\* handleDisconnect after an await broadcastRoster: the leave notice of that
\* room, then the roster broadcast of the next one; the handler's locals are
\* gone once it returns
HandleDisconnectNext(s) ==
    /\ hDisc[s].pc = "system"
    /\ hDisc' = [hDisc EXCEPT ![s] =
          IF hDisc[s].i < Len(hDisc[s].roomIds)
          THEN [@ EXCEPT !.i = @ + 1]
          ELSE [NoDisc EXCEPT !.pc = "done"]]
    /\ UNCHANGED <<rateVars, presenceVars, sockets, hConn, hEvt, nEvents>>
    /\ UNCHANGED <<storeVars, sendVars>>
    /\ outbox' = <<ToRoom("room:system", hDisc[s].roomIds[hDisc[s].i], "leave", 0)>>
                 \o (IF hDisc[s].i < Len(hDisc[s].roomIds)
                     THEN <<ToRoom("room:roster", hDisc[s].roomIds[hDisc[s].i + 1], "", 0)>>
                     ELSE <<>>)

(***************************************************************************)
(* ChatGateway: room:join, room:leave, presence:ping                       *)
(***************************************************************************)
\* room:join up to await isMember (without a bound user: ack Unauthorized)
RoomJoinStart(s, roomId, lastSeenAt) ==
    /\ sockets[s].phase = "open"
    /\ hEvt[s].kind = "none"
    /\ nEvents < MaxEvents
    /\ nEvents' = nEvents + 1
    /\ hEvt' = [hEvt EXCEPT ![s] =
          IF sockets[s].user = NoUser THEN NoEvt
          ELSE [NoEvt EXCEPT !.kind = "join", !.pc = "isMember",
                   !.userId = sockets[s].user, !.roomId = roomId,
                   !.fetch = lastSeenAt # NoSince, !.since = lastSeenAt]]
    /\ UNCHANGED <<rateVars, presenceVars, sockets, hConn, hDisc>>
    /\ UNCHANGED <<storeVars, sendVars>>
    /\ outbox' = IF sockets[s].user = NoUser
                 THEN <<AckOf("room:join", s, FALSE, "Unauthorized")>> ELSE <<>>

\* room:join after isMember: a non-member is refused; else client.join and
\* presenceService.joinRoom, then await getMessagesSince or broadcastRoster
RoomJoinMember(s) ==
    /\ hEvt[s].kind = "join" /\ hEvt[s].pc = "isMember"
    /\ IF ~IsMember(hEvt[s].userId, hEvt[s].roomId)
       THEN /\ hEvt' = [hEvt EXCEPT ![s] = NoEvt]
            /\ UNCHANGED <<presenceVars, sockets>>
       ELSE /\ sockets' = [sockets EXCEPT ![s].rooms =
                              IF sockets[s].phase = "open"
                              THEN @ \cup {hEvt[s].roomId} ELSE @]
            /\ presenceMap' = JoinRoomEntry(presenceMap, hEvt[s].userId, hEvt[s].roomId)
            /\ roomUsers' = JoinRoomRoster(roomUsers, hEvt[s].userId, hEvt[s].roomId)
            /\ socketToUser' = socketToUser
            /\ hEvt' = [hEvt EXCEPT ![s].pc = IF hEvt[s].fetch THEN "fetch" ELSE "system",
                                    ![s].changed =
                                        \/ sockets'[s].rooms # sockets[s].rooms
                                        \/ presenceMap' # presenceMap
                                        \/ roomUsers' # roomUsers]
    /\ UNCHANGED <<rateVars, hConn, hDisc, nEvents>>
    /\ UNCHANGED <<storeVars, sendVars>>
    /\ outbox' = IF ~IsMember(hEvt[s].userId, hEvt[s].roomId)
                 THEN <<AckOf("room:join", s, FALSE, "Not a member of this room")>>
                 ELSE IF hEvt[s].fetch THEN <<>>
                 ELSE <<ToRoom("room:roster", hEvt[s].roomId, "", 0)>>

\* room:join after getMessagesSince: the missed messages, then broadcastRoster
RoomJoinFetched(s) ==
    /\ hEvt[s].kind = "join" /\ hEvt[s].pc = "fetch"
    /\ hEvt' = [hEvt EXCEPT ![s].pc = "system"]
    /\ UNCHANGED <<rateVars, presenceVars, sockets, hConn, hDisc, nEvents>>
    /\ UNCHANGED <<storeVars, sendVars>>
    /\ outbox' = MissedEmits(s, GetMessagesSince(hEvt[s].roomId, hEvt[s].since))
                 \o <<ToRoom("room:roster", hEvt[s].roomId, "", 0)>>

\* room:join after broadcastRoster: the join notice and the ack
RoomJoinDone(s) ==
    /\ hEvt[s].kind = "join" /\ hEvt[s].pc = "system"
    /\ hEvt' = [hEvt EXCEPT ![s] = NoEvt]
    /\ UNCHANGED <<rateVars, presenceVars, sockets, hConn, hDisc, nEvents>>
    /\ UNCHANGED <<storeVars, sendVars>>
    /\ outbox' = <<ToRoom("room:system", hEvt[s].roomId, "join", 0),
                   AckOf("room:join", s, TRUE, "")>>

\* room:leave up to await updateLastSeen: client.leave and presenceService.leaveRoom
RoomLeaveStart(s, roomId) ==
    /\ sockets[s].phase = "open"
    /\ hEvt[s].kind = "none"
    /\ nEvents < MaxEvents
    /\ nEvents' = nEvents + 1
    /\ IF sockets[s].user = NoUser
       THEN UNCHANGED <<presenceVars, sockets, hEvt>>
       ELSE /\ sockets' = [sockets EXCEPT ![s].rooms = @ \ {roomId}]
            /\ presenceMap' = LeaveRoomEntry(presenceMap, sockets[s].user, roomId)
            /\ roomUsers' = LeaveRoomRoster(roomUsers, sockets[s].user, roomId)
            /\ socketToUser' = socketToUser
            /\ hEvt' = [hEvt EXCEPT ![s] =
                  [NoEvt EXCEPT !.kind = "leave", !.pc = "updateLastSeen",
                     !.userId = sockets[s].user, !.roomId = roomId,
                     !.changed =
                         \/ sockets'[s].rooms # sockets[s].rooms
                         \/ presenceMap' # presenceMap
                         \/ roomUsers' # roomUsers]]
    /\ UNCHANGED <<rateVars, hConn, hDisc>>
    /\ UNCHANGED <<storeVars, sendVars>>
    /\ outbox' = IF sockets[s].user = NoUser
                 THEN <<AckOf("room:leave", s, FALSE, "Unauthorized")>> ELSE <<>>

\* room:leave after updateLastSeen: broadcastRoster (the update fails when the
\* membership row is missing: ack Leave failed)
RoomLeaveUpdated(s) ==
    /\ hEvt[s].kind = "leave" /\ hEvt[s].pc = "updateLastSeen"
    /\ hEvt' = [hEvt EXCEPT ![s] =
          IF IsMember(hEvt[s].userId, hEvt[s].roomId)
          THEN [@ EXCEPT !.pc = "system"] ELSE NoEvt]
    /\ UNCHANGED <<rateVars, presenceVars, sockets, hConn, hDisc, nEvents>>
    /\ UNCHANGED <<storeVars, sendVars>>
    /\ outbox' = IF IsMember(hEvt[s].userId, hEvt[s].roomId)
                 THEN <<ToRoom("room:roster", hEvt[s].roomId, "", 0)>>
                 ELSE <<AckOf("room:leave", s, FALSE, "Leave failed")>>

\* room:leave after broadcastRoster: the leave notice and the ack
RoomLeaveDone(s) ==
    /\ hEvt[s].kind = "leave" /\ hEvt[s].pc = "system"
    /\ hEvt' = [hEvt EXCEPT ![s] = NoEvt]
    /\ UNCHANGED <<rateVars, presenceVars, sockets, hConn, hDisc, nEvents>>
    /\ UNCHANGED <<storeVars, sendVars>>
    /\ outbox' = <<ToRoom("room:system", hEvt[s].roomId, "leave", 0),
                   AckOf("room:leave", s, TRUE, "")>>

\* presence:ping
PresencePing(s) ==
    /\ sockets[s].phase = "open"
    /\ presenceMap' = IF sockets[s].user = NoUser THEN presenceMap
                      ELSE PingEntry(presenceMap, sockets[s].user)
    /\ UNCHANGED <<rateVars, socketToUser, roomUsers, gatewayVars>>
    /\ UNCHANGED <<storeVars, sendVars>>
    /\ outbox' = IF sockets[s].user = NoUser
                 THEN <<AckOf("presence:ping", s, FALSE, "Unauthorized")>>
                 ELSE <<AckOf("presence:ping", s, TRUE, "")>>

(***************************************************************************)
(* ChatGateway.handleRoomsSync                                             *)
(***************************************************************************)
\* room.lastSeenAt ? new Date(room.lastSeenAt) : new Date(0)
SinceOf(lastSeenAt) == IF lastSeenAt = NoSince THEN Epoch ELSE lastSeenAt

\* if (!isMember) continue
SyncSkipsMutant(userId, roomId) == FALSE

SyncSkips(userId, roomId) == ~IsMember(userId, roomId)

\* the frame once room i is dealt with: the next room's isMember, or the first
\* broadcastRoster of the closing loop
SyncAdvance(f) ==
    IF f.i < Len(f.rooms)
    THEN [f EXCEPT !.pc = "isMember", !.i = @ + 1]
    ELSE [f EXCEPT !.pc = "roster", !.i = 1]

\* what is emitted when the frame moves on from room i
SyncAdvanceEmits(f) ==
    IF f.i < Len(f.rooms) THEN <<>>
    ELSE <<ToRoom("room:roster", f.rooms[1].roomId, "", 0)>>

\* rooms:sync up to the first await isMember (without a bound user: ack
\* Unauthorized; an empty batch skips both loops and is acknowledged at once)
SyncStart(s, rooms) ==
    /\ sockets[s].phase = "open"
    /\ hEvt[s].kind = "none"
    /\ nEvents < MaxEvents
    /\ nEvents' = nEvents + 1
    /\ hEvt' = [hEvt EXCEPT ![s] =
          IF sockets[s].user = NoUser \/ rooms = <<>> THEN NoEvt
          ELSE [NoEvt EXCEPT !.kind = "sync", !.pc = "isMember",
                   !.userId = sockets[s].user, !.rooms = rooms, !.i = 1]]
    /\ outbox' = IF sockets[s].user = NoUser
                 THEN <<AckOf("rooms:sync", s, FALSE, "Unauthorized")>>
                 ELSE IF rooms = <<>> THEN <<SyncAck(s, TRUE, "", <<>>)>>
                 ELSE <<>>
    /\ UNCHANGED <<rateVars, presenceVars, sockets, hConn, hDisc>>
    /\ UNCHANGED <<storeVars, sendVars>>

\* rooms:sync after isMember of room i: a room the user is not a member of is
\* skipped; else client.join and presenceService.joinRoom, then await
\* getMessagesSince
SyncMemberMutant(s) ==
    LET f == hEvt[s]
        roomId == f.rooms[f.i].roomId
    IN  /\ f.kind = "sync" /\ f.pc = "isMember"
        /\ IF SyncSkips(f.userId, roomId)
           THEN /\ hEvt' = [hEvt EXCEPT ![s] = SyncAdvance(f)]
                /\ outbox' = SyncAdvanceEmits(f)
                /\ UNCHANGED <<presenceVars, sockets>>
           ELSE /\ sockets' = sockets
                /\ presenceMap' = JoinRoomEntry(presenceMap, f.userId, roomId)
                /\ roomUsers' = JoinRoomRoster(roomUsers, f.userId, roomId)
                /\ socketToUser' = socketToUser
                /\ hEvt' = [hEvt EXCEPT ![s].pc = "fetch"]
                /\ outbox' = <<>>
        /\ UNCHANGED <<rateVars, hConn, hDisc, nEvents>>
        /\ UNCHANGED <<storeVars, sendVars>>

SyncMember(s) ==
    LET f == hEvt[s]
        roomId == f.rooms[f.i].roomId
    IN  /\ f.kind = "sync" /\ f.pc = "isMember"
        /\ IF SyncSkips(f.userId, roomId)
           THEN /\ hEvt' = [hEvt EXCEPT ![s] = SyncAdvance(f)]
                /\ outbox' = SyncAdvanceEmits(f)
                /\ UNCHANGED <<presenceVars, sockets>>
           ELSE /\ sockets' = [sockets EXCEPT ![s].rooms =
                                  IF sockets[s].phase = "open" THEN @ \cup {roomId} ELSE @]
                /\ presenceMap' = JoinRoomEntry(presenceMap, f.userId, roomId)
                /\ roomUsers' = JoinRoomRoster(roomUsers, f.userId, roomId)
                /\ socketToUser' = socketToUser
                /\ hEvt' = [hEvt EXCEPT ![s].pc = "fetch"]
                /\ outbox' = <<>>
        /\ UNCHANGED <<rateVars, hConn, hDisc, nEvents>>
        /\ UNCHANGED <<storeVars, sendVars>>

\* rooms:sync after getMessagesSince of room i: the missed messages and the
\* roster go to the client, the room is reported as synced
SyncFetched(s) ==
    LET f == hEvt[s]
        room == f.rooms[f.i]
        missed == GetMessagesSince(room.roomId, SinceOf(room.lastSeenAt))
        g == [f EXCEPT !.results = Append(@,
                 [roomId |-> room.roomId, synced |-> TRUE, messageCount |-> Len(missed)])]
    IN  /\ f.kind = "sync" /\ f.pc = "fetch"
        /\ hEvt' = [hEvt EXCEPT ![s] = SyncAdvance(g)]
        /\ outbox' = MissedEmits(s, missed)
                     \o <<ToClient("room:roster", s, room.roomId, "", 0)>>
                     \o SyncAdvanceEmits(g)
        /\ UNCHANGED <<rateVars, presenceVars, sockets, hConn, hDisc, nEvents>>
        /\ UNCHANGED <<storeVars, sendVars>>

\* rooms:sync when getMessagesSince of room i rejects: the catch acks Sync failed
SyncFetchFailed(s) ==
    /\ hEvt[s].kind = "sync" /\ hEvt[s].pc = "fetch"
    /\ hEvt' = [hEvt EXCEPT ![s] = NoEvt]
    /\ outbox' = <<SyncAck(s, FALSE, "Sync failed", <<>>)>>
    /\ UNCHANGED <<rateVars, presenceVars, sockets, hConn, hDisc, nEvents>>
    /\ UNCHANGED <<storeVars, sendVars>>

\* rooms:sync after an await broadcastRoster of the closing loop: the next
\* payload room's roster, or the ack
SyncRoster(s) ==
    LET f == hEvt[s]
    IN  /\ f.kind = "sync" /\ f.pc = "roster"
        /\ IF f.i < Len(f.rooms)
           THEN /\ hEvt' = [hEvt EXCEPT ![s].i = @ + 1]
                /\ outbox' = <<ToRoom("room:roster", f.rooms[f.i + 1].roomId, "", 0)>>
           ELSE /\ hEvt' = [hEvt EXCEPT ![s] = NoEvt]
                /\ outbox' = <<SyncAck(s, TRUE, "", f.results)>>
        /\ UNCHANGED <<rateVars, presenceVars, sockets, hConn, hDisc, nEvents>>
        /\ UNCHANGED <<storeVars, sendVars>>

(***************************************************************************)
(* ChatGateway.handleTypingUpdate                                          *)
(***************************************************************************)
\* typing:update up to await isMember (without a bound user: ack Unauthorized)
TypingStart(s, roomId) ==
    /\ sockets[s].phase = "open"
    /\ hEvt[s].kind = "none"
    /\ hEvt' = [hEvt EXCEPT ![s] =
          IF sockets[s].user = NoUser THEN NoEvt
          ELSE [NoEvt EXCEPT !.kind = "typing", !.pc = "isMember",
                   !.userId = sockets[s].user, !.roomId = roomId]]
    /\ outbox' = IF sockets[s].user = NoUser
                 THEN <<AckOf("typing:update", s, FALSE, "Unauthorized")>> ELSE <<>>
    /\ UNCHANGED <<rateVars, presenceVars, sockets, hConn, hDisc, nEvents>>
    /\ UNCHANGED <<storeVars, sendVars>>

\* typing:update after isMember: a non-member is refused; else the status goes
\* to the room without the sender
TypingMember(s) ==
    /\ hEvt[s].kind = "typing" /\ hEvt[s].pc = "isMember"
    /\ hEvt' = [hEvt EXCEPT ![s] = NoEvt]
    /\ outbox' = IF ~IsMember(hEvt[s].userId, hEvt[s].roomId)
                 THEN <<AckOf("typing:update", s, FALSE, "Not a member of this room")>>
                 ELSE <<ToOthers("typing:update", s, hEvt[s].roomId),
                        AckOf("typing:update", s, TRUE, "")>>
    /\ UNCHANGED <<rateVars, presenceVars, sockets, hConn, hDisc, nEvents>>
    /\ UNCHANGED <<storeVars, sendVars>>

\* typing:update when isMember rejects: the handler has no try/catch, its
\* promise rejects and no ack value is returned; the framework may report the
\* exception to the client
TypingFault(s) ==
    /\ hEvt[s].kind = "typing" /\ hEvt[s].pc = "isMember"
    /\ hEvt' = [hEvt EXCEPT ![s] = NoEvt]
    /\ \E box \in {<<>>, <<ToClient("exception", s, hEvt[s].roomId, "error", 0)>>} :
          outbox' = box
    /\ UNCHANGED <<rateVars, presenceVars, sockets, hConn, hDisc, nEvents>>
    /\ UNCHANGED <<storeVars, sendVars>>

\* room:join when isMember or getMessagesSince rejects: the catch acks
\* "Join failed"
RoomJoinFault(s) ==
    /\ hEvt[s].kind = "join" /\ hEvt[s].pc \in {"isMember", "fetch"}
    /\ hEvt' = [hEvt EXCEPT ![s] = NoEvt]
    /\ outbox' = <<AckOf("room:join", s, FALSE, "Join failed")>>
    /\ UNCHANGED <<rateVars, presenceVars, sockets, hConn, hDisc, nEvents>>
    /\ UNCHANGED <<storeVars, sendVars>>

(***************************************************************************)
(* ChatService.sendMessage and ChatGateway.handleMessageSend               *)
(***************************************************************************)
TrimMutant(text) == text

\* text.trim()
Trim(text) == [lead |-> 0, core |-> text.core, trail |-> 0]
\* text.length (UTF-16 code units)
TextLen(text) == text.lead + text.core + text.trail

NoAck == [sent |-> FALSE, success |-> FALSE, messageId |-> NoMsg,
          isDuplicate |-> FALSE, error |-> "", mutedUntil |-> NoMute]
Ack(success, messageId, isDuplicate, error, mutedUntil) ==
    [sent |-> TRUE, success |-> success, messageId |-> messageId,
     isDuplicate |-> isDuplicate, error |-> error, mutedUntil |-> mutedUntil]
NoResult == [success |-> FALSE, messageId |-> NoMsg, isDuplicate |-> FALSE]

\* prisma.messageDedupe.findUnique({roomId_userId_clientMsgId})
FindDedupe(roomId, userId, clientMsgId) ==
    {d \in dedupes : d.roomId = roomId /\ d.userId = userId /\ d.clientMsgId = clientMsgId}

\* the MessageResult of sendMessage when the dedupe lookup finds a record
DuplicateResult(d) == [success |-> TRUE, messageId |-> d.messageId, isDuplicate |-> TRUE]

\* the ack handleMessageSend returns after a successful sendMessage
SuccessAck(result) == Ack(TRUE, result.messageId, FALSE, "", NoMute)

\* message:send up to await isMember (without a bound user: ack Unauthorized)
SendStartMutant(s, roomId, clientMsgId, text) ==
    /\ sockets[s].phase = "open"
    /\ Len(sends) < MaxCalls
    /\ sends' = Append(sends,
          [socket |-> s, userId |-> sockets[s].user, roomId |-> roomId,
           clientMsgId |-> clientMsgId, text |-> text, pc |-> "isMember",
           lookup |-> "none", result |-> NoResult, broadcast |-> FALSE,
           ack |-> NoAck])
    /\ UNCHANGED <<rateVars, presenceVars, gatewayVars, storeVars, newCount>>
    /\ outbox' = <<>>

SendStart(s, roomId, clientMsgId, text) ==
    /\ sockets[s].phase = "open"
    /\ Len(sends) < MaxCalls
    /\ sends' = Append(sends,
          [socket |-> s, userId |-> sockets[s].user, roomId |-> roomId,
           clientMsgId |-> clientMsgId, text |-> text,
           pc |-> IF sockets[s].user = NoUser THEN "done" ELSE "isMember",
           lookup |-> "none", result |-> NoResult, broadcast |-> FALSE,
           ack |-> IF sockets[s].user = NoUser
                   THEN Ack(FALSE, NoMsg, FALSE, "Unauthorized", NoMute) ELSE NoAck])
    /\ UNCHANGED <<rateVars, presenceVars, gatewayVars, storeVars, newCount>>
    /\ outbox' = IF sockets[s].user = NoUser
                 THEN <<AckOf("message:send", s, FALSE, "Unauthorized")>> ELSE <<>>

\* after isMember: a non-member is refused; the rate limiter is consulted and
\* a rejected send gets the muted notice; sendMessage validates the text and
\* awaits the dedupe lookup
SendMemberMutant(c) ==
    LET call == sends[c]
        trimmed == Trim(call.text)
    IN  /\ call.pc = "isMember"
        /\ IF ~IsMember(call.userId, call.roomId)
           THEN /\ sends' = [sends EXCEPT ![c].pc = "done",
                       ![c].ack = Ack(FALSE, NoMsg, FALSE, "Not a member of this room", NoMute)]
                /\ UNCHANGED rateVars
           ELSE /\ IF TextLen(trimmed) = 0 \/ TextLen(trimmed) > MaxTextLen
                   THEN UNCHANGED rateVars
                   ELSE CheckAndRecord(call.userId, call.roomId) /\ UNCHANGED now
                /\ sends' = [sends EXCEPT ![c] =
                      IF TextLen(trimmed) # 0 /\ TextLen(trimmed) <= MaxTextLen /\ ~rlLast'.allowed
                      THEN [@ EXCEPT !.pc = "done",
                               !.ack = Ack(FALSE, NoMsg, FALSE, RLError(rlLast'.pre, now),
                                          rlLast'.mutedUntil)]
                      ELSE IF TextLen(trimmed) = 0
                      THEN [@ EXCEPT !.pc = "done",
                               !.ack = Ack(FALSE, NoMsg, FALSE, "Message cannot be empty", NoMute)]
                      ELSE IF TextLen(trimmed) > MaxTextLen
                      THEN [@ EXCEPT !.pc = "done",
                               !.ack = Ack(FALSE, NoMsg, FALSE, "Message too long (max 500 characters)", NoMute)]
                      ELSE [@ EXCEPT !.pc = "findUnique"]]
        /\ UNCHANGED <<presenceVars, gatewayVars, storeVars, newCount>>
        /\ outbox' =
              IF sends'[c].pc # "done" THEN <<>>
              ELSE (IF sends'[c].ack.mutedUntil # NoMute
                    THEN <<ToClient("room:system", sends[c].socket, sends[c].roomId, "muted", 0)>>
                    ELSE <<>>)
                   \o <<AckOf("message:send", sends[c].socket, FALSE, sends'[c].ack.error)>>

SendMember(c) ==
    LET call == sends[c]
        trimmed == Trim(call.text)
    IN  /\ call.pc = "isMember"
        /\ IF ~IsMember(call.userId, call.roomId)
           THEN /\ sends' = [sends EXCEPT ![c].pc = "done",
                       ![c].ack = Ack(FALSE, NoMsg, FALSE, "Not a member of this room", NoMute)]
                /\ UNCHANGED rateVars
           ELSE /\ CheckAndRecord(call.userId, call.roomId)
                /\ UNCHANGED now
                /\ sends' = [sends EXCEPT ![c] =
                      IF ~rlLast'.allowed
                      THEN [@ EXCEPT !.pc = "done",
                               !.ack = Ack(FALSE, NoMsg, FALSE, RLError(rlLast'.pre, now),
                                          rlLast'.mutedUntil)]
                      ELSE IF TextLen(trimmed) = 0
                      THEN [@ EXCEPT !.pc = "done",
                               !.ack = Ack(FALSE, NoMsg, FALSE, "Message cannot be empty", NoMute)]
                      ELSE IF TextLen(trimmed) > MaxTextLen
                      THEN [@ EXCEPT !.pc = "done",
                               !.ack = Ack(FALSE, NoMsg, FALSE, "Message too long (max 500 characters)", NoMute)]
                      ELSE [@ EXCEPT !.pc = "findUnique"]]
        /\ UNCHANGED <<presenceVars, gatewayVars, storeVars, newCount>>
        /\ outbox' =
              IF sends'[c].pc # "done" THEN <<>>
              ELSE (IF sends'[c].ack.mutedUntil # NoMute
                    THEN <<ToClient("room:system", sends[c].socket, sends[c].roomId, "muted", 0)>>
                    ELSE <<>>)
                   \o <<AckOf("message:send", sends[c].socket, FALSE, sends'[c].ack.error)>>

\* sendMessage after findUnique: an existing record is returned as a duplicate
\* (the gateway then awaits getMessage); else the transaction is started
SendLookup(c) ==
    LET call == sends[c]
        found == FindDedupe(call.roomId, call.userId, call.clientMsgId)
    IN  /\ call.pc = "findUnique"
        /\ sends' = [sends EXCEPT ![c] =
              IF found # {}
              THEN [@ EXCEPT !.pc = "getMessage", !.lookup = "hit",
                       !.result = DuplicateResult(CHOOSE d \in found : TRUE)]
              ELSE [@ EXCEPT !.pc = "transaction", !.lookup = "miss"]]
        /\ UNCHANGED <<rateVars, presenceVars, gatewayVars, storeVars, newCount>>
        /\ outbox' = <<>>

\* the row tx.message.create inserts
NewMessage(call, id) ==
    [id |-> id, roomId |-> call.roomId, userId |-> call.userId,
     text |-> Trim(call.text), createdAt |-> now]

TransactionMessagesMutant(call, id) == Append(messages, NewMessage(call, id))

\* the Message table after the $transaction: when messageDedupe.create hits
\* the unique key the created message is rolled back
TransactionMessages(call, id) ==
    IF FindDedupe(call.roomId, call.userId, call.clientMsgId) # {}
    THEN messages
    ELSE Append(messages, NewMessage(call, id))

\* sendMessage's $transaction: message.create and messageDedupe.create commit
\* together; a unique violation on the dedupe key rolls both back and is
\* thrown, and handleMessageSend's catch acks "Send failed"
SendTransaction(c) ==
    LET call == sends[c]
        id == Len(messages) + 1
    IN  /\ call.pc = "transaction"
        /\ IF FindDedupe(call.roomId, call.userId, call.clientMsgId) # {}
           THEN /\ sends' = [sends EXCEPT ![c].pc = "done",
                       ![c].ack = Ack(FALSE, NoMsg, FALSE, "Send failed", NoMute)]
                /\ messages' = TransactionMessages(call, id)
                /\ UNCHANGED <<dedupes, newCount>>
           ELSE /\ messages' = TransactionMessages(call, id)
                /\ dedupes' = dedupes \cup
                       {[roomId |-> call.roomId, userId |-> call.userId,
                         clientMsgId |-> call.clientMsgId, messageId |-> id]}
                /\ newCount' = Append(newCount, 0)
                /\ sends' = [sends EXCEPT ![c].pc = "getMessage",
                       ![c].result = [success |-> TRUE, messageId |-> id, isDuplicate |-> FALSE]]
        /\ UNCHANGED <<rateVars, presenceVars, gatewayVars>>
        /\ outbox' = IF sends'[c].pc = "done"
                     THEN <<AckOf("message:send", call.socket, FALSE, "Send failed")>>
                     ELSE <<>>

NewMessageEmitMutant(call, id) ==
    [ToRoom("message:new", call.roomId, "", id) EXCEPT !.scope = "others", !.socket = call.socket]

\* this.server.to(roomId).emit('message:new', messagePayload)
NewMessageEmit(call, id) == ToRoom("message:new", call.roomId, "", id)

\* handleMessageSend after getMessage: message:new is broadcast to the room,
\* then await updateLastSeen
SendLoaded(c) ==
    LET call == sends[c]
        id == call.result.messageId
    IN  /\ call.pc = "getMessage"
        /\ IF id \in 1..Len(messages)
           THEN /\ newCount' = [newCount EXCEPT ![id] = @ + 1]
                /\ sends' = [sends EXCEPT ![c].pc = "updateLastSeen", ![c].broadcast = TRUE]
           ELSE /\ newCount' = newCount
                /\ sends' = [sends EXCEPT ![c].pc = "updateLastSeen"]
        /\ UNCHANGED <<rateVars, presenceVars, gatewayVars, storeVars>>
        /\ outbox' = IF id \in 1..Len(messages)
                     THEN <<NewMessageEmit(call, id)>>
                     ELSE <<>>

\* handleMessageSend after updateLastSeen: the ack
SendDone(c) ==
    LET call == sends[c]
    IN  /\ call.pc = "updateLastSeen"
        /\ sends' = [sends EXCEPT ![c].pc = "done", ![c].ack = SuccessAck(call.result)]
        /\ UNCHANGED <<rateVars, presenceVars, gatewayVars, storeVars, newCount>>
        /\ outbox' = <<AckOf("message:send", call.socket, TRUE, "")>>

\* an awaited collaborator call (isMember, findUnique, $transaction,
\* getMessage, updateLastSeen) rejects: handleMessageSend's catch acks
\* "Send failed"; what the call has committed or broadcast stays
SendFault(c) ==
    /\ sends[c].pc \in {"isMember", "findUnique", "transaction", "getMessage", "updateLastSeen"}
    /\ sends' = [sends EXCEPT ![c].pc = "done",
                    ![c].ack = Ack(FALSE, NoMsg, FALSE, "Send failed", NoMute)]
    /\ UNCHANGED <<rateVars, presenceVars, gatewayVars, storeVars, newCount>>
    /\ outbox' = <<AckOf("message:send", sends[c].socket, FALSE, "Send failed")>>

\* handleMessageSend has returned: its frame is gone
SendForget(c) ==
    /\ sends[c].pc = "done"
    /\ sends' = [i \in 1..(Len(sends) - 1) |-> IF i < c THEN sends[i] ELSE sends[i + 1]]
    /\ UNCHANGED <<rateVars, presenceVars, gatewayVars, storeVars, newCount>>
    /\ outbox' = <<>>

InitStore ==
    /\ messages = <<>>
    /\ dedupes = {}

InitSend ==
    /\ newCount = <<>>
    /\ sends = <<>>
    /\ outbox = <<>>

InitPresence ==
    /\ presenceMap = EmptyMap
    /\ socketToUser = EmptyMap
    /\ roomUsers = EmptyMap

InitGateway ==
    /\ sockets = [s \in Sockets |->
                     [phase |-> "idle", cred |-> BadCred, user |-> NoUser, rooms |-> {},
                      handshake |-> NoHandshake, token |-> NoField]]
    /\ hConn = [s \in Sockets |-> "none"]
    /\ hDisc = [s \in Sockets |-> NoDisc]
    /\ hEvt = [s \in Sockets |-> NoEvt]
    /\ nEvents = 0

Init == InitRate /\ InitPresence /\ InitGateway /\ InitStore /\ InitSend

\* a message table left by n earlier sends of u1, one rate window apart, all to
\* r1 but the second, each broadcast once
StoreOf(n) ==
    [i \in 1..n |->
        [id |-> i, roomId |-> IF i = 2 THEN "r2" ELSE "r1", userId |-> "u1",
         text |-> [lead |-> 0, core |-> 2, trail |-> 0],
         createdAt |-> (i - n - 1) * windowMs]]

DedupesOf(n) ==
    {[roomId |-> StoreOf(n)[i].roomId, userId |-> "u1",
      clientMsgId |-> ToString(i), messageId |-> i] : i \in 1..n}

InitSync ==
    /\ InitRate /\ InitPresence /\ InitGateway
    /\ \E n \in StoredCounts :
          /\ messages = StoreOf(n)
          /\ dedupes = DedupesOf(n)
          /\ newCount = [i \in 1..n |-> 1]
    /\ sends = <<>>
    /\ outbox = <<>>

NextRate ==
    \/ \E k \in RateKeys : RateLimitCall(k[1], k[2])
    \/ Cleanup
    \/ Tick

SpecRate == Init /\ [][NextRate]_vars

\* checkAndRecord calls for three (user, room) pairs at one instant
NextRatePairs ==
    \E k \in PairKeys : RateLimitCall(k[1], k[2])

SpecRatePairs == Init /\ [][NextRatePairs]_vars

\* one connection with every combination of the three credential locations
NextHandshake ==
    \/ \E s \in {1}, h \in Handshakes : Handshake(s, h)
    \/ \E s \in {1} : AuthRejected(s)
    \/ \E s \in {1} : AuthAccepted(s)
    \/ \E s \in {1} : TransportClose(s)

SpecHandshake == Init /\ [][NextHandshake]_vars

\* one member sending to r1; the clock advances while a stored message waits
\* for its reload, so that two interleaved sends get different creation times
NextOrder ==
    \/ Open(1, "u1")
    \/ AuthAccepted(1)
    \/ \E t \in Tokens : SendStart(1, "r1", t, [lead |-> 0, core |-> 2, trail |-> 0])
    \/ \E c \in 1..Len(sends) : SendMember(c)
    \/ \E c \in 1..Len(sends) : SendLookup(c)
    \/ \E c \in 1..Len(sends) : SendTransaction(c)
    \/ \E c \in 1..Len(sends) : SendLoaded(c)
    \/ \E c \in 1..Len(sends) : SendDone(c)
    \/ (\E c \in 1..Len(sends) : sends[c].pc = "getMessage") /\ Tick

SpecOrder == Init /\ [][NextOrder]_vars

\* rooms:sync requests for r1 alone
GapBatches == {b \in SyncBatches : Len(b) = 1 /\ b[1].roomId = "r1"}

\* connection 1 of u1 syncs r1 while connection 2 of u2 sends to r1, one
\* message after the acknowledgement of the one before
NextGap ==
    \/ Open(1, "u1")
    \/ Open(2, "u2")
    \/ \E s \in {1, 2} : AuthAccepted(s)
    \/ \E b \in GapBatches : SyncStart(1, b)
    \/ SyncMember(1)
    \/ SyncFetched(1)
    \/ SyncRoster(1)
    \/ \E t \in Tokens :
          /\ \A c \in 1..Len(sends) : sends[c].pc = "done"
          /\ SendStart(2, "r1", t, [lead |-> 0, core |-> 2, trail |-> 0])
    \/ \E c \in 1..Len(sends) : SendMember(c)
    \/ \E c \in 1..Len(sends) : SendLookup(c)
    \/ \E c \in 1..Len(sends) : SendTransaction(c)
    \/ \E c \in 1..Len(sends) : SendLoaded(c)
    \/ \E c \in 1..Len(sends) : SendDone(c)

SpecGap == Init /\ [][NextGap]_vars

\* texts that are empty after trim, valid, and too long
SlotTexts == {[lead |-> 2, core |-> 0, trail |-> 0],
              [lead |-> 1, core |-> 1, trail |-> 1],
              [lead |-> 0, core |-> MaxTextLen + 1, trail |-> 0]}

\* u2, member of r1 only, sends one message after the other with the same
\* clientMsgId; every awaited collaborator call may reject
NextSlot ==
    \/ Open(1, "u2")
    \/ AuthAccepted(1)
    \/ \E r \in Rooms, x \in SlotTexts :
          /\ \A c \in 1..Len(sends) : sends[c].pc = "done"
          /\ SendStart(1, r, "t1", x)
    \/ \E c \in 1..Len(sends) : SendMember(c)
    \/ \E c \in 1..Len(sends) : SendLookup(c)
    \/ \E c \in 1..Len(sends) : SendTransaction(c)
    \/ \E c \in 1..Len(sends) : SendLoaded(c)
    \/ \E c \in 1..Len(sends) : SendDone(c)
    \/ \E c \in 1..Len(sends) : SendFault(c)

SpecSlot == Init /\ [][NextSlot]_vars

\* one connection whose client sends every kind of event, one after the
\* acknowledgement of the other, also while handleConnection still awaits the
\* authentication
NextUnbound ==
    \/ \E c \in Users \cup {BadCred} : Open(1, c)
    \/ AuthRejected(1)
    \/ AuthAccepted(1)
    \/ \E b \in GapBatches : (\A c \in 1..Len(sends) : sends[c].pc = "done") /\ SyncStart(1, b)
    \/ \E r \in Rooms : (\A c \in 1..Len(sends) : sends[c].pc = "done") /\ RoomJoinStart(1, r, NoSince)
    \/ \E r \in Rooms : (\A c \in 1..Len(sends) : sends[c].pc = "done") /\ RoomLeaveStart(1, r)
    \/ \E r \in Rooms : (\A c \in 1..Len(sends) : sends[c].pc = "done") /\ TypingStart(1, r)
    \/ (\A c \in 1..Len(sends) : sends[c].pc = "done") /\ PresencePing(1)
    \/ \E r \in Rooms :
          /\ hEvt[1].kind = "none"
          /\ \A c \in 1..Len(sends) : sends[c].pc = "done"
          /\ SendStart(1, r, "t1", [lead |-> 0, core |-> 2, trail |-> 0])
    \/ SyncMember(1)
    \/ SyncFetched(1)
    \/ SyncRoster(1)
    \/ RoomJoinMember(1)
    \/ RoomJoinDone(1)
    \/ RoomLeaveUpdated(1)
    \/ RoomLeaveDone(1)
    \/ TypingMember(1)
    \/ \E c \in 1..Len(sends) : SendMember(c)
    \/ \E c \in 1..Len(sends) : SendLookup(c)
    \/ \E c \in 1..Len(sends) : SendTransaction(c)
    \/ \E c \in 1..Len(sends) : SendLoaded(c)
    \/ \E c \in 1..Len(sends) : SendDone(c)

SpecUnbound == Init /\ [][NextUnbound]_vars

NextPresence ==
    \/ \E s \in Sockets, c \in Users \cup {BadCred} : Open(s, c)
    \/ \E s \in Sockets : AuthRejected(s)
    \/ \E s \in Sockets : AuthAccepted(s)
    \/ \E s \in Sockets : TransportClose(s)
    \/ \E s \in Sockets : HandleDisconnectNext(s)
    \/ \E s \in Sockets, r \in Rooms : RoomJoinStart(s, r, NoSince)
    \/ \E s \in Sockets : RoomJoinMember(s)
    \/ \E s \in Sockets : RoomJoinDone(s)
    \/ \E s \in Sockets, r \in Rooms : RoomLeaveStart(s, r)
    \/ \E s \in Sockets : RoomLeaveUpdated(s)
    \/ \E s \in Sockets : RoomLeaveDone(s)

SpecPresence == Init /\ [][NextPresence]_vars

\* two connections of u1: joins, heartbeats, the sweep and the clock
NextStale ==
    \/ \E s \in {1, 2} : Open(s, "u1")
    \/ \E s \in {1, 2} : AuthAccepted(s)
    \/ \E s \in {1, 2} : TransportClose(s)
    \/ \E s \in {1, 2} : HandleDisconnectNext(s)
    \/ \E s \in {1, 2}, r \in Rooms : RoomJoinStart(s, r, NoSince)
    \/ \E s \in {1, 2} : RoomJoinMember(s)
    \/ \E s \in {1, 2} : RoomJoinDone(s)
    \/ \E s \in {1, 2} : PresencePing(s)
    \/ CheckTimeouts
    \/ Tick

SpecStale == Init /\ [][NextStale]_vars

\* one connection and its rooms:sync events over a stored history
NextSync ==
    \/ \E s \in {1}, c \in Users : Open(s, c)
    \/ \E s \in {1} : AuthAccepted(s)
    \/ \E s \in {1} : TransportClose(s)
    \/ \E s \in {1} : HandleDisconnectNext(s)
    \/ \E s \in {1}, b \in SyncBatches : SyncStart(s, b)
    \/ \E s \in {1} : SyncMember(s)
    \/ \E s \in {1} : SyncFetched(s)
    \/ \E s \in {1} : SyncRoster(s)

SpecSync == InitSync /\ [][NextSync]_vars

\* the same with a message store whose reads can fail
NextSyncFault ==
    \/ NextSync
    \/ \E s \in {1} : SyncFetchFailed(s)

SpecSyncFault == InitSync /\ [][NextSyncFault]_vars

\* the events that are gated by room membership: room:join, typing:update and
\* message:send, on one connection whose client sends an event after the
\* acknowledgement of the one before
NextGate ==
    \/ \E s \in {1}, c \in Users : Open(s, c)
    \/ \E s \in {1} : AuthAccepted(s)
    \/ \E s \in {1} : TransportClose(s)
    \/ \E s \in {1} : HandleDisconnectNext(s)
    \/ \E s \in {1}, r \in Rooms : RoomJoinStart(s, r, NoSince)
    \/ \E s \in {1} : RoomJoinMember(s)
    \/ \E s \in {1} : RoomJoinDone(s)
    \/ \E s \in {1}, r \in Rooms : TypingStart(s, r)
    \/ \E s \in {1} : TypingMember(s)
    \/ \E s \in {1}, r \in Rooms :
          /\ hEvt[s].kind = "none"
          /\ \A c \in 1..Len(sends) : sends[c].pc = "done"
          /\ SendStart(s, r, "t1", [lead |-> 1, core |-> 2, trail |-> 1])
    \/ \E c \in 1..Len(sends) : SendMember(c)
    \/ \E c \in 1..Len(sends) : SendLookup(c)
    \/ \E c \in 1..Len(sends) : SendTransaction(c)
    \/ \E c \in 1..Len(sends) : SendLoaded(c)
    \/ \E c \in 1..Len(sends) : SendDone(c)

SpecGate == Init /\ [][NextGate]_vars

\* one user on two connections sending to one room until the limiter rejects
NextMute ==
    \/ \E s \in {1, 2} : Open(s, "u1")
    \/ \E s \in {1, 2} : AuthAccepted(s)
    \/ \E s \in {1, 2} : RoomJoinStart(s, "r1", NoSince)
    \/ \E s \in {1, 2} : RoomJoinMember(s)
    \/ \E s \in {1, 2} : RoomJoinDone(s)
    \/ \E s \in {1, 2} :
          /\ \A c \in 1..Len(sends) : sends[c].pc = "done"
          /\ SendStart(s, "r1", "t1", [lead |-> 1, core |-> 2, trail |-> 1])
    \/ \E c \in 1..Len(sends) : SendMember(c)
    \/ \E c \in 1..Len(sends) : SendLookup(c)
    \/ \E c \in 1..Len(sends) : SendTransaction(c)
    \/ \E c \in 1..Len(sends) : SendLoaded(c)
    \/ \E c \in 1..Len(sends) : SendDone(c)
    \/ \E c \in 1..Len(sends) : SendForget(c)

SpecMute == Init /\ [][NextMute]_vars

\* one member sending texts around the validation limits
NextValidate ==
    \/ \E s \in {1} : Open(s, "u1")
    \/ \E s \in {1} : AuthAccepted(s)
    \/ \E s \in {1} : TransportClose(s)
    \/ \E s \in {1}, x \in EdgeTexts : SendStart(s, "r1", "t1", x)
    \/ \E c \in 1..Len(sends) : SendMember(c)
    \/ \E c \in 1..Len(sends) : SendLookup(c)
    \/ \E c \in 1..Len(sends) : SendTransaction(c)
    \/ \E c \in 1..Len(sends) : SendLoaded(c)
    \/ \E c \in 1..Len(sends) : SendDone(c)

SpecValidate == Init /\ [][NextValidate]_vars

\* message:send of one member with collaborator calls that may reject
NextSendFault ==
    \/ \E s \in {1} : Open(s, "u1")
    \/ \E s \in {1} : AuthAccepted(s)
    \/ \E s \in {1} : TransportClose(s)
    \/ \E s \in {1}, t \in Tokens :
          SendStart(s, "r1", t, [lead |-> 1, core |-> 2, trail |-> 1])
    \/ \E c \in 1..Len(sends) : SendMember(c)
    \/ \E c \in 1..Len(sends) : SendLookup(c)
    \/ \E c \in 1..Len(sends) : SendTransaction(c)
    \/ \E c \in 1..Len(sends) : SendLoaded(c)
    \/ \E c \in 1..Len(sends) : SendDone(c)
    \/ \E c \in 1..Len(sends) : SendFault(c)

SpecSendFault == Init /\ [][NextSendFault]_vars

\* u1 and u2 on a connection each, who join r1, send to it and report typing in it
NextCast ==
    \/ Open(1, "u1")
    \/ Open(2, "u2")
    \/ \E s \in {1, 2} : AuthAccepted(s)
    \/ \E s \in {1, 2} : TransportClose(s)
    \/ \E s \in {1, 2} : HandleDisconnectNext(s)
    \/ \E s \in {1, 2} : RoomJoinStart(s, "r1", NoSince)
    \/ \E s \in {1, 2} : RoomJoinMember(s)
    \/ \E s \in {1, 2} : RoomJoinDone(s)
    \/ \E s \in {1, 2} : TypingStart(s, "r1")
    \/ \E s \in {1, 2} : TypingMember(s)
    \/ \E s \in {1, 2} :
          /\ \A c \in 1..Len(sends) : sends[c].pc = "done"
          /\ SendStart(s, "r1", "t1", [lead |-> 1, core |-> 2, trail |-> 1])
    \/ \E c \in 1..Len(sends) : SendMember(c)
    \/ \E c \in 1..Len(sends) : SendLookup(c)
    \/ \E c \in 1..Len(sends) : SendTransaction(c)
    \/ \E c \in 1..Len(sends) : SendLoaded(c)
    \/ \E c \in 1..Len(sends) : SendDone(c)

SpecCast == Init /\ [][NextCast]_vars

\* room:join, room:leave and typing:update on one connection, with store
\* calls that may reject
NextEventFault ==
    \/ \E s \in {1}, c \in Users : Open(s, c)
    \/ \E s \in {1} : AuthAccepted(s)
    \/ \E s \in {1} : TransportClose(s)
    \/ \E s \in {1} : HandleDisconnectNext(s)
    \/ \E s \in {1}, r \in Rooms, l \in SyncSinces : RoomJoinStart(s, r, l)
    \/ \E s \in {1} : RoomJoinMember(s)
    \/ \E s \in {1} : RoomJoinFetched(s)
    \/ \E s \in {1} : RoomJoinDone(s)
    \/ \E s \in {1} : RoomJoinFault(s)
    \/ \E s \in {1}, r \in Rooms : RoomLeaveStart(s, r)
    \/ \E s \in {1} : RoomLeaveUpdated(s)
    \/ \E s \in {1} : RoomLeaveDone(s)
    \/ \E s \in {1}, r \in Rooms : TypingStart(s, r)
    \/ \E s \in {1} : TypingMember(s)
    \/ \E s \in {1} : TypingFault(s)

SpecEventFault == Init /\ [][NextEventFault]_vars

NextSend ==
    \/ \E s \in Sockets, c \in Users : Open(s, c)
    \/ \E s \in Sockets : AuthAccepted(s)
    \/ \E s \in Sockets : TransportClose(s)
    \/ \E s \in Sockets, r \in Rooms, t \in Tokens, x \in SendTexts : SendStart(s, r, t, x)
    \/ \E c \in 1..Len(sends) : SendMember(c)
    \/ \E c \in 1..Len(sends) : SendLookup(c)
    \/ \E c \in 1..Len(sends) : SendTransaction(c)
    \/ \E c \in 1..Len(sends) : SendLoaded(c)
    \/ \E c \in 1..Len(sends) : SendDone(c)

SpecSend == Init /\ [][NextSend]_vars

Spec == SpecRate

(***************************************************************************)
(* Rate limiter claims.                                                    *)
(***************************************************************************)
InWindow(ts, t) == SelectSeq(ts, LAMBDA x : x > t - windowMs /\ x <= t)

\* C5: for every (user, room) pair and every instant, at most 5 allowed sends
\* have timestamps in the trailing window (t - 10s, t]; and starting from an
\* empty RateWindow the first 5 calls made within 10 seconds are all allowed.
C5_WindowLimit ==
    \A k \in AllKeys :
        /\ Len(InWindow(rlAllowedLog[k], now)) <= 5
        /\ (rlFresh[k].kind = "empty" /\ rlFresh[k].calls <= 5
              /\ rlFresh[k].last - rlFresh[k].at < 10000)
           => rlFresh[k].denied = 0

C5_Witness ==
    \E k \in AllKeys :
        /\ rlFresh[k].kind = "empty" /\ rlFresh[k].calls = 5
        /\ rlFresh[k].last > rlFresh[k].at
        /\ rlFresh[k].denied = 0
        /\ Len(InWindow(rlAllowedLog[k], now)) = 5

\* C6: a call that finds 5 timestamps in the trailing 10s window is rejected
\* and sets mutedUntil = now + 30s; every later call before mutedUntil is
\* rejected, reports that same mutedUntil, records no timestamp and does not
\* move mutedUntil.
C6_HardMute ==
    rlLast.valid =>
        /\ ( /\ ~(rlLast.pre.mutedUntil # NoMute /\ rlLast.at < rlLast.pre.mutedUntil)
             /\ Len(InWindow(rlLast.pre.timestamps, rlLast.at)) >= 5 )
           => /\ ~rlLast.allowed
              /\ rlLast.mutedUntil = rlLast.at + 30000
              /\ rlLast.post.mutedUntil = rlLast.at + 30000
        /\ (rlLast.muteBefore # NoMute /\ rlLast.at < rlLast.muteBefore)
           => /\ ~rlLast.allowed
              /\ rlLast.mutedUntil = rlLast.muteBefore
              /\ rlLast.post.mutedUntil = rlLast.muteBefore
              /\ rlLast.post.timestamps = rlLast.pre.timestamps

C6_Witness ==
    /\ rlLast.valid /\ ~rlLast.allowed
    /\ rlLast.muteBefore # NoMute
    /\ rlLast.at > rlLast.muteBefore - 30000
    /\ rlLast.at < rlLast.muteBefore
    /\ rlLast.mutedUntil = rlLast.muteBefore

\* C7: the first call made after mutedUntil is allowed, clears the mute and
\* the timestamp history and starts a fresh window: that call and the next 4
\* calls within 10 seconds are all allowed.
C7_FreshAfterMute ==
    /\ (rlLast.valid /\ rlLast.muteBefore # NoMute /\ rlLast.at > rlLast.muteBefore)
       => /\ rlLast.allowed
          /\ rlLast.post = [timestamps |-> <<rlLast.at>>, mutedUntil |-> NoMute]
    /\ \A k \in AllKeys :
          (rlFresh[k].kind = "unmute" /\ rlFresh[k].calls <= 5
             /\ rlFresh[k].last - rlFresh[k].at < 10000)
          => rlFresh[k].denied = 0

C7_Witness ==
    \E k \in AllKeys :
        /\ rlFresh[k].kind = "unmute" /\ rlFresh[k].calls = 5
        /\ rlFresh[k].last > rlFresh[k].at
        /\ rlFresh[k].denied = 0
        /\ rateLimitMap[k].mutedUntil = NoMute

(***************************************************************************)
(* Presence tracker claims.                                                *)
(***************************************************************************)
\* C8: in every reachable state user u is in RoomRoster[r] if and only if a
\* PresenceEntry for u exists and its room set contains r.
C8_RosterMatchesEntries ==
    \A u \in Users, r \in Rooms :
        (r \in DOMAIN roomUsers /\ u \in roomUsers[r])
        <=> (u \in DOMAIN presenceMap
               /\ \E i \in 1..Len(presenceMap[u].roomIds) : presenceMap[u].roomIds[i] = r)

\* C9: every user has at most one connection id in the reverse index, and
\* socketToUser[s] = u if and only if the PresenceEntry of u exists and is
\* bound to connection s.
C9_ReverseIndexInverse ==
    /\ \A u \in Users :
          Cardinality({s \in DOMAIN socketToUser : socketToUser[s] = u}) <= 1
    /\ \A s \in Sockets, u \in Users :
          (s \in DOMAIN socketToUser /\ socketToUser[s] = u)
          <=> (u \in DOMAIN presenceMap /\ presenceMap[u].socketId = s)

\* a second connection of the same user has superseded the first, still open
C9_Witness ==
    \E u \in Users, s1, s2 \in Sockets :
        /\ s1 # s2
        /\ sockets[s1].phase = "open" /\ sockets[s1].user = u
        /\ sockets[s2].phase = "open" /\ sockets[s2].user = u
        /\ u \in DOMAIN presenceMap /\ presenceMap[u].socketId = s2
        /\ s1 \notin DOMAIN socketToUser
        /\ s2 \in DOMAIN socketToUser

\* C10: once the gateway's Disconnect has run for the connection bound to
\* user u, u is absent from every RoomRoster that contained u before, and
\* each of those rooms is among the rooms the handler broadcasts room:roster to.
C10_DisconnectClearsRosters ==
    [][\A s \in Sockets :
          (hDisc[s].pc = "none" /\ hDisc'[s].pc # "none" /\ s \in DOMAIN socketToUser)
          => \A r \in Rooms :
                (r \in DOMAIN roomUsers /\ socketToUser[s] \in roomUsers[r])
                => /\ ~(r \in DOMAIN roomUsers' /\ socketToUser[s] \in roomUsers'[r])
                   /\ \E i \in 1..Len(hDisc'[s].roomIds) : hDisc'[s].roomIds[i] = r]_vars

(***************************************************************************)
(* Stale presence                                                          *)
(***************************************************************************)
Stale(u) == u \in DOMAIN presenceMap /\ now - presenceMap[u].lastPing > 30000

\* a step of the clock or of a timer: no handler moves and nothing is acknowledged
TimerStep == gatewayVars' = gatewayVars /\ outbox' = <<>>

\* C11: a user whose last heartbeat is more than 30 s old has status offline and
\* is listed as offline by every roster read; the passing of time and the
\* timeout sweep leave its entry, its rooms, its binding and its connection as
\* they were.
C11_StaleIsOffline ==
    /\ [](\A u \in Users : Stale(u) =>
            /\ GetStatus(presenceMap, u, now) = "offline"
            /\ \A r \in Rooms :
                 \A e \in RosterUsers(presenceMap, roomUsers, sockets, r, now) :
                    e.id = u => e.status = "offline")
    /\ [][TimerStep => /\ DOMAIN presenceMap' = DOMAIN presenceMap
                       /\ \A u \in DOMAIN presenceMap :
                            /\ presenceMap'[u].socketId = presenceMap[u].socketId
                            /\ presenceMap'[u].roomIds = presenceMap[u].roomIds
                       /\ socketToUser' = socketToUser
                       /\ roomUsers' = roomUsers
                       /\ sockets' = sockets]_vars

\* a stale user still bound to an open connection and listed in a room
C11_Witness ==
    \E u \in Users, r \in Rooms :
        /\ Stale(u)
        /\ sockets[presenceMap[u].socketId].phase = "open"
        /\ socketToUser[presenceMap[u].socketId] = u
        /\ [id |-> u, status |-> "offline"]
              \in RosterUsers(presenceMap, roomUsers, sockets, r, now)

(***************************************************************************)
(* rooms:sync                                                              *)
(***************************************************************************)
\* the step of the sync handler of connection s that follows getMessagesSince
FetchStep(s) ==
    hEvt[s].kind = "sync" /\ hEvt[s].pc = "fetch" /\ hEvt'[s] # hEvt[s]
\* the message:new emits of a step
NewEmits(box) == SelectSeq(box, LAMBDA e : e.ev = "message:new")
\* the stored messages of a room created after a time
Later(roomId, t) ==
    {id \in DOMAIN messages : messages[id].roomId = roomId /\ messages[id].createdAt > t}
Min(a, b) == IF a <= b THEN a ELSE b

\* C12: the messages a sync emits for a room go to the requesting connection,
\* one message:new each; they are the min(100, n) oldest of the room's n
\* messages created strictly after lastSeenAt (the epoch when it is missing),
\* in ascending creation time, and none is older or of another room.
C12_SyncEmitsMissed ==
    [][\A s \in Sockets : (FetchStep(s) /\ Acks(outbox') = <<>>) =>
          LET room == hEvt[s].rooms[hEvt[s].i]
              t == IF room.lastSeenAt = NoSince THEN Epoch ELSE room.lastSeenAt
              e == NewEmits(outbox')
              ids == {e[k].msg : k \in 1..Len(e)}
              later == Later(room.roomId, t)
          IN  /\ \A k \in 1..Len(e) : e[k].scope = "client" /\ e[k].socket = s
              /\ ids \subseteq later
              /\ Len(e) = Min(100, Cardinality(later))
              /\ Cardinality(ids) = Len(e)
              /\ \A k \in 1..(Len(e) - 1) :
                    messages[e[k].msg].createdAt <= messages[e[k + 1].msg].createdAt
              /\ \A id \in later \ ids : \A x \in ids :
                    messages[x].createdAt <= messages[id].createdAt]_vars

\* a fetch that hit the cap, and one cut off by lastSeenAt
C12_Witness ==
    /\ Len(NewEmits(outbox)) = 100
    /\ Cardinality(Later("r1", Epoch)) > 100

\* the step of the sync handler of connection s that follows isMember, for a
\* room the user is not a member of
SkipStep(s) ==
    /\ hEvt[s].kind = "sync" /\ hEvt[s].pc = "isMember" /\ hEvt'[s] # hEvt[s]
    /\ ~IsMember(hEvt[s].userId, hEvt[s].rooms[hEvt[s].i].roomId)
\* the step in which the sync handler of connection s returns
SyncAckStep(s) ==
    /\ hEvt[s].kind = "sync" /\ hEvt'[s].kind = "none"
\* the rooms a result list reports as synced
SyncedRooms(results) == {results[k].roomId : k \in {j \in 1..Len(results) : results[j].synced}}

\* C13: for a room of the batch the user is not a member of, the sync neither
\* subscribes the connection nor registers presence nor emits anything to the
\* connection; the rooms the user is a member of are all reported as synced,
\* the others are not reported, and the ack is success.
C13_SyncSkipsNonMember ==
    [][\A s \in Sockets :
          /\ SkipStep(s) =>
                /\ sockets'[s].rooms = sockets[s].rooms
                /\ presenceMap' = presenceMap /\ roomUsers' = roomUsers
                /\ socketToUser' = socketToUser
                /\ \A k \in 1..Len(outbox') :
                      outbox'[k].room = hEvt[s].rooms[hEvt[s].i].roomId
                         => s \notin Receivers(outbox'[k], sockets')
          /\ SyncAckStep(s) =>
                /\ Len(Acks(outbox')) = 1
                /\ Acks(outbox')[1].ok
                /\ SyncedRooms(Acks(outbox')[1].results) =
                      {hEvt[s].rooms[k].roomId : k \in {j \in 1..Len(hEvt[s].rooms) :
                          IsMember(hEvt[s].userId, hEvt[s].rooms[j].roomId)}}
                /\ \A k \in 1..Len(hEvt[s].rooms) :
                      hEvt[s].rooms[k].roomId \in sockets'[s].rooms
                         => IsMember(hEvt[s].userId, hEvt[s].rooms[k].roomId)]_vars

\* a sync of u2 acknowledged with r1 synced and r2, which u2 is not in, left out
C13_Witness ==
    /\ Len(Acks(outbox)) = 1
    /\ outbox[Len(outbox)].ev = "rooms:sync"
    /\ outbox[Len(outbox)].ok
    /\ SyncedRooms(outbox[Len(outbox)].results) = {"r1"}
    /\ sockets[1].user = "u2"
    /\ presenceMap["u2"].roomIds = <<"r1">>
    /\ "r2" \notin DOMAIN roomUsers

\* C14: when the missed-message fetch of one room of the batch fails, the sync
\* is still acknowledged with success and a result for every room the user is
\* a member of, the failed room with synced false and the others with synced
\* true.
C14_FetchFailureIsolated ==
    [][\A s \in Sockets : SyncAckStep(s) =>
          /\ Len(Acks(outbox')) = 1
          /\ Acks(outbox')[1].ok
          /\ {Acks(outbox')[1].results[k].roomId : k \in 1..Len(Acks(outbox')[1].results)} =
                {hEvt[s].rooms[k].roomId : k \in {j \in 1..Len(hEvt[s].rooms) :
                    IsMember(hEvt[s].userId, hEvt[s].rooms[j].roomId)}}]_vars

\* a step of the sync handler of connection s
SyncStep(s) == hEvt[s].kind = "sync" /\ hEvt'[s] # hEvt[s]

\* C15: what a sync sends to a whole room is a room:roster, and only to rooms it
\* synced, which are the rooms of the batch the user is a member of; it sends
\* no room:system notice.
C15_SyncRosterToSyncedOnly ==
    [][\A s \in Sockets : SyncStep(s) =>
          \A k \in 1..Len(outbox') :
             /\ outbox'[k].ev # "room:system"
             /\ outbox'[k].scope \in {"room", "others"} =>
                   /\ outbox'[k].ev = "room:roster"
                   /\ IsMember(hEvt[s].userId, outbox'[k].room)]_vars

(***************************************************************************)
(* Connection authentication                                               *)
(***************************************************************************)
\* the step in which handleConnection of connection s resumes after authenticateSocket
AuthStep(s) == hConn[s] = "auth" /\ hConn'[s] = "done"
\* no presence entry and no reverse-index entry names connection s
Unregistered(pm, s2u, s) ==
    /\ s \notin DOMAIN s2u
    /\ \A u \in DOMAIN pm : pm[u].socketId # s

\* C16: a connection whose credential is missing or rejected is closed when
\* authentication returns, is never delivered an event and never appears in
\* the presence map or the reverse index; a connection whose credential is
\* accepted gets the resolved user as data.user and is registered for that
\* user under its connection id.
C16_AuthGate ==
    [][\A s \in Sockets :
          /\ (sockets'[s].phase # "idle" /\ sockets'[s].cred = BadCred) =>
                /\ Unregistered(presenceMap', socketToUser', s)
                /\ sockets'[s].user = NoUser
                /\ \A k \in 1..Len(Emits(outbox')) :
                      s \notin Receivers(Emits(outbox')[k], sockets')
          /\ (AuthStep(s) /\ sockets[s].cred = BadCred) =>
                /\ sockets'[s].phase = "closed"
                /\ Emits(outbox') = <<>>
                /\ presenceMap' = presenceMap /\ socketToUser' = socketToUser
          /\ (AuthStep(s) /\ sockets[s].cred # BadCred) =>
                /\ sockets'[s].user = sockets[s].cred
                /\ sockets[s].cred \in DOMAIN presenceMap'
                /\ presenceMap'[sockets[s].cred].socketId = s
                /\ s \in DOMAIN socketToUser'
                /\ socketToUser'[s] = sockets[s].cred]_vars

\* a rejected connection, closed, next to a user rebound to a second connection
\* while a room is being broadcast to
C16_Witness ==
    /\ sockets[1].cred = BadCred /\ sockets[1].phase = "closed" /\ hConn[1] = "done"
    /\ sockets[2].user = "u1" /\ sockets[2].phase = "open"
    /\ socketToUser[2] = "u1"
    /\ Emits(outbox) # <<>>

(***************************************************************************)
(* Idempotent send                                                         *)
(***************************************************************************)
\* the calls of one (roomId, userId, clientMsgId) that got as far as the dedupe lookup
SameKey(c, d) ==
    /\ sends[c].roomId = sends[d].roomId
    /\ sends[c].userId = sends[d].userId
    /\ sends[c].clientMsgId = sends[d].clientMsgId
Finished(c) == sends[c].pc = "done" /\ sends[c].lookup # "none"
\* the messages created by the calls carrying the key of call c
CreatedFor(c) ==
    {sends[d].result.messageId : d \in {e \in DOMAIN sends :
        SameKey(c, e) /\ sends[e].result.success /\ ~sends[e].result.isDuplicate}}

\* C1: once the message:send calls of one user to one room with one token have
\* finished, exactly one Message exists for the token and every call was
\* answered with that message's id.
C1_OneMessageSameId ==
    \A c \in DOMAIN sends :
        Finished(c) =>
            /\ Cardinality(CreatedFor(c)) = 1
            /\ sends[c].ack.success
            /\ sends[c].ack.messageId \in CreatedFor(c)

\* C2: two calls with the same key that both missed the dedupe lookup (so both
\* looked before either inserted) are both acknowledged with success and the
\* same message id, neither with an error.
C2_LoserRereads ==
    \A c, d \in DOMAIN sends :
        (c # d /\ SameKey(c, d) /\ Finished(c) /\ Finished(d)
              /\ sends[c].lookup = "miss" /\ sends[d].lookup = "miss") =>
            /\ sends[c].ack.success /\ sends[d].ack.success
            /\ sends[c].ack.error = "" /\ sends[d].ack.error = ""
            /\ sends[c].ack.messageId = sends[d].ack.messageId
            /\ sends[c].ack.messageId # NoMsg

\* C3: a call resolved through an existing dedupe record emits no message:new,
\* and every stored message has been broadcast as message:new at most once.
C3_NoRebroadcast ==
    /\ \A c \in DOMAIN sends : sends[c].lookup = "hit" => ~sends[c].broadcast
    /\ \A id \in DOMAIN newCount : newCount[id] <= 1

\* C4: the ack of a call that hit an existing dedupe record is success with
\* isDuplicate true and the recorded message id; the ack of a first accepted
\* send is success with the new message id and without isDuplicate.
C4_DuplicateAck ==
    \A c \in DOMAIN sends :
        (sends[c].pc = "done" /\ sends[c].ack.success) =>
            /\ sends[c].ack.messageId = sends[c].result.messageId
            /\ sends[c].ack.messageId \in DOMAIN messages
            /\ sends[c].ack.isDuplicate = (sends[c].lookup = "hit")


(***************************************************************************)
(* Membership gate of room:join, message:send and typing:update            *)
(***************************************************************************)
NonMember(userId, roomId) == <<userId, roomId>> \notin Membership

\* the step in which a handler learns from isMember that its user is no member
JoinRefusal(s) ==
    /\ hEvt[s].kind = "join" /\ hEvt[s].pc = "isMember" /\ hEvt'[s] # hEvt[s]
    /\ NonMember(hEvt[s].userId, hEvt[s].roomId)
TypingRefusal(s) ==
    /\ hEvt[s].kind = "typing" /\ hEvt[s].pc = "isMember" /\ hEvt'[s] # hEvt[s]
    /\ NonMember(hEvt[s].userId, hEvt[s].roomId)
SendRefusal(c) ==
    /\ sends[c].pc = "isMember" /\ sends'[c].pc # "isMember"
    /\ NonMember(sends[c].userId, sends[c].roomId)

\* the step acknowledges ev on s with success false and does nothing else
RefusedQuietly(ev, s) ==
    /\ Acks(outbox') = <<AckOf(ev, s, FALSE, "Not a member of this room")>>
    /\ Emits(outbox') = <<>>
    /\ sockets' = sockets
    /\ presenceMap' = presenceMap /\ socketToUser' = socketToUser /\ roomUsers' = roomUsers
    /\ rateLimitMap' = rateLimitMap
    /\ messages' = messages /\ dedupes' = dedupes

\* C17: a room:join, message:send or typing:update of an authenticated user
\* who is not a member of the target room is acknowledged with success false,
\* leaves the connection as it is, and changes nothing: no subscription, no
\* presence or roster change, no rate-window record, no stored message and no
\* event emitted to any connection.
C17_NonMemberRefused ==
    [][ /\ \A s \in Sockets :
             /\ JoinRefusal(s) => RefusedQuietly("room:join", s)
             /\ TypingRefusal(s) => RefusedQuietly("typing:update", s)
        /\ \A c \in 1..Len(sends) :
             SendRefusal(c) => RefusedQuietly("message:send", sends[c].socket) ]_vars

\* u2, subscribed to r1, has had a message:send refused and now a typing:update
C17_Witness ==
    /\ sockets[1].phase = "open" /\ sockets[1].user = "u2" /\ sockets[1].rooms = {"r1"}
    /\ \E c \in 1..Len(sends) :
          /\ sends[c].roomId = "r2" /\ sends[c].pc = "done"
          /\ sends[c].ack.error = "Not a member of this room"
    /\ outbox = <<AckOf("typing:update", 1, FALSE, "Not a member of this room")>>


(***************************************************************************)
(* Rate-limit rejection of message:send                                    *)
(***************************************************************************)
\* the step of call c in which checkAndRecord answers allowed: false
RateRejectStep(c) ==
    /\ Len(sends') = Len(sends)
    /\ sends[c].pc = "isMember" /\ sends'[c].pc # "isMember"
    /\ <<sends[c].userId, sends[c].roomId>> \in Membership
    /\ ~RLResult(RLGet(<<sends[c].userId, sends[c].roomId>>), now).allowed

\* C18: when the rate limiter rejects a message:send, the ack is success false
\* and carries mutedUntil, exactly one room:system notice of type muted is
\* emitted, to the sending connection and to no other, no Message or
\* DedupeRecord is stored and nothing is broadcast to the room.
C18_RateRejection ==
    [][ \A c \in 1..Len(sends) :
          RateRejectStep(c) =>
             /\ sends'[c].ack.sent /\ ~sends'[c].ack.success
             /\ sends'[c].ack.mutedUntil # NoMute /\ sends'[c].ack.mutedUntil > now
             /\ Acks(outbox') = <<AckOf("message:send", sends[c].socket, FALSE,
                                        sends'[c].ack.error)>>
             /\ Len(Emits(outbox')) = 1
             /\ Emits(outbox')[1].ev = "room:system" /\ Emits(outbox')[1].type = "muted"
             /\ Emits(outbox')[1].room = sends[c].roomId
             /\ Receivers(Emits(outbox')[1], sockets') = {sends[c].socket}
             /\ messages' = messages /\ dedupes' = dedupes /\ newCount' = newCount ]_vars

\* connection 2 has just been told it is muted while connection 1 is
\* subscribed to the same room
C18_Witness ==
    /\ "r1" \in sockets[1].rooms /\ "r1" \in sockets[2].rooms
    /\ Len(outbox) = 2
    /\ outbox[1] = ToClient("room:system", 2, "r1", "muted", 0)
    /\ outbox[2].scope = "ack" /\ ~outbox[2].ok /\ outbox[2].socket = 2
    /\ Len(messages) = 1


(***************************************************************************)
(* Text validation of sendMessage                                          *)
(***************************************************************************)
\* the step of call c in which sendMessage is entered and validates the text
ValidateStep(c) ==
    /\ sends[c].pc = "isMember" /\ sends'[c].pc # "isMember"
    /\ <<sends[c].userId, sends[c].roomId>> \in Membership
    /\ RLResult(RLGet(<<sends[c].userId, sends[c].roomId>>), now).allowed

\* the text without its leading and trailing whitespace has 1..500 characters
GoodText(text) == text.core >= 1 /\ text.core <= 500

\* a call that the validation turned down
Invalidated(call) ==
    call.ack.sent /\ call.ack.error \in {"Message cannot be empty",
                                         "Message too long (max 500 characters)"}

\* C19: Send accepts a text if and only if its trimmed form has between 1 and
\* 500 characters; a text whose trimmed form is empty or longer is rejected
\* before any read or write of the message store; and the text stored for an
\* accepted send is the trimmed form.
C19_TextValidation ==
    /\ [] \A c \in 1..Len(sends) :
            Invalidated(sends[c]) =>
               /\ ~sends[c].ack.success /\ sends[c].pc = "done"
               /\ sends[c].lookup = "none" /\ sends[c].result = NoResult
    /\ [][ \A c \in 1..Len(sends) :
            /\ ValidateStep(c) =>
                  /\ (sends'[c].pc = "findUnique") <=> GoodText(sends[c].text)
                  /\ ~GoodText(sends[c].text) =>
                        /\ Invalidated(sends'[c])
                        /\ messages' = messages /\ dedupes' = dedupes
            /\ (sends[c].pc = "transaction" /\ sends'[c].pc = "getMessage") =>
                  messages'[Len(messages')].text =
                     [lead |-> 0, core |-> sends[c].text.core, trail |-> 0] ]_vars

\* a text of 500 characters wrapped in whitespace was stored without the
\* whitespace, and a text of 501 was turned down
C19_Witness ==
    /\ \E c \in 1..Len(sends) :
          /\ sends[c].text = [lead |-> 1, core |-> 500, trail |-> 1]
          /\ sends[c].ack.sent /\ sends[c].ack.success
          /\ messages[sends[c].ack.messageId].text = [lead |-> 0, core |-> 500, trail |-> 0]
    /\ \E c \in 1..Len(sends) :
          /\ sends[c].text.core = 501
          /\ sends[c].ack.error = "Message too long (max 500 characters)"


(***************************************************************************)
(* Failure of a collaborator during message:send                           *)
(***************************************************************************)
\* the call's own transaction committed a Message and its DedupeRecord
Committed(call) == call.lookup = "miss" /\ call.result.success

\* C20: a send is never partially applied: whenever a message:send is
\* acknowledged with success false, that call has stored no Message and no
\* DedupeRecord and has broadcast no message:new, whichever collaborator call
\* was the one that failed.
C20_NoPartialSend ==
    \A c \in 1..Len(sends) :
        (sends[c].ack.sent /\ ~sends[c].ack.success) =>
            ~Committed(sends[c]) /\ ~sends[c].broadcast


(***************************************************************************)
(* Delivery of message:new and typing:update                               *)
(***************************************************************************)
\* the connections subscribed to roomId
Subscribed(socks, roomId) == {x \in DOMAIN socks : roomId \in socks[x].rooms}

\* the step of call c in which the message its own transaction created comes
\* back from getMessage
FirstBroadcastStep(c) ==
    /\ sends[c].pc = "getMessage" /\ sends'[c].pc = "updateLastSeen"
    /\ sends[c].lookup = "miss"

\* C21: a first-time accepted message:send broadcasts exactly one message:new
\* to every connection subscribed to the room at that moment, the sender's own
\* connection included when it is subscribed.
C21_BroadcastIncludesSender ==
    [][ \A c \in 1..Len(sends) :
          FirstBroadcastStep(c) =>
             /\ Len(Emits(outbox')) = 1
             /\ Emits(outbox')[1].ev = "message:new"
             /\ Emits(outbox')[1].msg = sends[c].result.messageId
             /\ Receivers(Emits(outbox')[1], sockets) = Subscribed(sockets, sends[c].roomId)
             /\ ~sends[c].broadcast /\ sends'[c].broadcast ]_vars

\* u1 on connection 1 has just had its message broadcast to both subscribers
C21_Witness ==
    /\ Subscribed(sockets, "r1") = {1, 2}
    /\ Len(outbox) = 1 /\ outbox[1].ev = "message:new"
    /\ Receivers(outbox[1], sockets) = {1, 2}
    /\ \E c \in 1..Len(sends) :
          /\ sends[c].socket = 1 /\ sends[c].pc = "updateLastSeen"
          /\ sends[c].lookup = "miss" /\ sends[c].result.messageId = outbox[1].msg

\* the step in which typing:update of a member is passed on
TypingStep(s) ==
    /\ hEvt[s].kind = "typing" /\ hEvt[s].pc = "isMember" /\ hEvt'[s] # hEvt[s]
    /\ <<hEvt[s].userId, hEvt[s].roomId>> \in Membership

\* C22: a typing:update from a member is delivered to every other connection
\* subscribed to the room and never to the originating connection; the
\* originator receives only the ack.
C22_TypingExcludesSender ==
    [][ \A s \in Sockets :
          TypingStep(s) =>
             /\ Len(Emits(outbox')) = 1
             /\ Emits(outbox')[1].ev = "typing:update"
             /\ Receivers(Emits(outbox')[1], sockets) =
                   Subscribed(sockets, hEvt[s].roomId) \ {s}
             /\ Acks(outbox') = <<AckOf("typing:update", s, TRUE, "")>> ]_vars

\* connection 1 reported typing while both connections are subscribed
C22_Witness ==
    /\ Subscribed(sockets, "r1") = {1, 2}
    /\ Len(outbox) = 2 /\ outbox[1].ev = "typing:update"
    /\ Receivers(outbox[1], sockets) = {2}
    /\ outbox[2] = AckOf("typing:update", 1, TRUE, "")


(***************************************************************************)
(* Failures inside the event handlers                                      *)
(***************************************************************************)
\* the step in which the handler of an event of connection s ends
HandlerEnds(s) == hEvt[s].kind # "none" /\ hEvt'[s].kind = "none"

\* C23: for every client event, a failure inside the handler, a failing
\* membership-store or message-store call included, yields a structured ack
\* with success false rather than an unhandled error, and the connection stays
\* open: every handler that ends, ends with an ack and leaves the connection
\* as it was.
C23_FailureAcked ==
    [][ \A s \in Sockets :
          HandlerEnds(s) =>
             /\ Len(Acks(outbox')) = 1 /\ Acks(outbox')[1].socket = s
             /\ sockets'[s].phase = sockets[s].phase ]_vars


(***************************************************************************)
(* Message and DedupeRecord                                                *)
(***************************************************************************)
\* the DedupeRecords that point to message i
RecordsOf(i) == {d \in dedupes : d.messageId = i}

\* C24: in every reachable state, the state after an insert that failed
\* part-way included, Messages and DedupeRecords are in one-to-one
\* correspondence: every DedupeRecord points to an existing Message of the
\* same room and user, and every Message has exactly one DedupeRecord.
C24_MessageDedupePaired ==
    /\ \A d \in dedupes :
          /\ d.messageId \in 1..Len(messages)
          /\ messages[d.messageId].roomId = d.roomId
          /\ messages[d.messageId].userId = d.userId
    /\ \A i \in 1..Len(messages) : Cardinality(RecordsOf(i)) = 1

\* two sends with one token both missed the lookup; one committed and the
\* other's insert was turned down
C24_Witness ==
    /\ Len(messages) = 1
    /\ \E c, e \in 1..Len(sends) :
          /\ c # e /\ sends[c].clientMsgId = sends[e].clientMsgId
          /\ sends[c].lookup = "miss" /\ sends[c].result.success
          /\ sends[e].lookup = "miss" /\ ~sends[e].result.success
          /\ sends[e].pc = "done" /\ sends[e].ack.error = "Send failed"


(***************************************************************************)
(* A second connection of the same user                                    *)
(***************************************************************************)
\* handleConnection of s2 registers a user whose entry is bound to s1
RebindStep(s1, s2) ==
    /\ s1 # s2
    /\ hConn[s2] = "auth" /\ hConn'[s2] = "done" /\ sockets[s2].cred # BadCred
    /\ sockets[s2].cred \in DOMAIN presenceMap
    /\ presenceMap[sockets[s2].cred].socketId = s1

\* s1 is an authenticated open connection that another one has superseded
Superseded(s1) ==
    /\ sockets[s1].phase = "open" /\ sockets[s1].user # NoUser
    /\ s1 \notin DOMAIN socketToUser

\* C25: when user u connects on s2 while its presence is bound to s1, the
\* entry is rebound to s2 keeping u's joined rooms, s1 no longer resolves to u
\* and s1 is neither notified nor closed; a later disconnect of s1 leaves u's
\* PresenceEntry, its binding to s2 and the RoomRosters unchanged and triggers
\* no leave notice and no roster broadcast.
C25_SilentSupersede ==
    [][ \A s1, s2 \in Sockets :
          /\ RebindStep(s1, s2) =>
                LET u == sockets[s2].cred
                IN  /\ presenceMap'[u].socketId = s2
                    /\ presenceMap'[u].roomIds = presenceMap[u].roomIds
                    /\ roomUsers' = roomUsers
                    /\ s1 \notin DOMAIN socketToUser'
                    /\ s2 \in DOMAIN socketToUser' /\ socketToUser'[s2] = u
                    /\ sockets'[s1] = sockets[s1] /\ hDisc'[s1] = hDisc[s1]
                    /\ outbox' = <<>>
          /\ (Superseded(s1) /\ sockets'[s1].phase = "closed") =>
                /\ presenceMap' = presenceMap /\ socketToUser' = socketToUser
                /\ roomUsers' = roomUsers
                /\ outbox' = <<>>
                /\ hDisc'[s1].pc = "done" ]_vars

\* connection 1 of u1 was superseded by connection 2 and has disconnected;
\* u1 is still present, bound to 2 and in the roster of r1
C25_Witness ==
    /\ sockets[1].phase = "closed" /\ sockets[1].user = "u1" /\ hDisc[1].pc = "done"
    /\ sockets[2].phase = "open" /\ sockets[2].user = "u1"
    /\ "u1" \in DOMAIN presenceMap /\ presenceMap["u1"].socketId = 2
    /\ presenceMap["u1"].roomIds # <<>>
    /\ "r1" \in DOMAIN roomUsers /\ "u1" \in roomUsers["r1"]
    /\ 2 \in DOMAIN socketToUser


(***************************************************************************)
(* presence:ping and the reported status                                   *)
(***************************************************************************)
\* the step in which presence:ping of an authenticated connection s is handled
PingStep(s) ==
    /\ sockets[s].phase = "open" /\ sockets[s].user # NoUser
    /\ outbox' = <<AckOf("presence:ping", s, TRUE, "")>>

\* C26: presence:ping sets the user's last heartbeat to now and changes
\* nothing else: the user's rooms, every RoomRoster, the connection binding
\* and all rate windows are unchanged and no event is broadcast; for a user
\* without a PresenceEntry it is a no-op; a stale user who pings is reported
\* online again by the next roster read.
C26_PingRefreshesOnly ==
    [][ \A s \in Sockets :
          PingStep(s) =>
             LET u == sockets[s].user
             IN  /\ IF u \in DOMAIN presenceMap
                    THEN /\ presenceMap' = [presenceMap EXCEPT ![u].lastPing = now]
                         /\ GetStatus(presenceMap', u, now') = "online"
                         /\ \A r \in Rooms :
                              \A e \in RosterUsers(presenceMap', roomUsers', sockets', r, now') :
                                 e.id = u => e.status = "online"
                    ELSE presenceMap' = presenceMap
                 /\ socketToUser' = socketToUser /\ roomUsers' = roomUsers
                 /\ rateLimitMap' = rateLimitMap
                 /\ sockets' = sockets /\ hEvt' = hEvt /\ hDisc' = hDisc
                 /\ now' = now
                 /\ Emits(outbox') = <<>> ]_vars

\* u1 has pinged more than 30 s after the start and is listed online in r1
C26_Witness ==
    /\ outbox = <<AckOf("presence:ping", 1, TRUE, "")>>
    /\ now > onlineTimeoutMs
    /\ "u1" \in DOMAIN presenceMap /\ presenceMap["u1"].lastPing = now
    /\ [id |-> "u1", status |-> "online"]
          \in RosterUsers(presenceMap, roomUsers, sockets, "r1", now)

\* C27: the status reported for a user is online exactly when the user has a
\* PresenceEntry and now - lastHeartbeat < 30 s, and offline otherwise; a user
\* whose last heartbeat is exactly 30 s old is reported offline.
C27_OnlineIffFresh ==
    \A u \in Users :
        (GetStatus(presenceMap, u, now) = "online")
        <=> (u \in DOMAIN presenceMap /\ now - presenceMap[u].lastPing < 30000)


(***************************************************************************)
(* The rate-limit sweep                                                    *)
(***************************************************************************)
\* the keys a step deletes from the rate map
Swept == DOMAIN rateLimitMap \ DOMAIN rateLimitMap'

\* C28: the periodic sweep deletes a RateWindow entry only when it has no
\* timestamp inside the trailing 10 s window and no mute that is still in the
\* future, and the deletion is unobservable: every later checkAndRecord returns
\* the allowed/muted result and the mutedUntil it would have returned if the
\* sweep had never run.
C28_SweepUnobservable ==
    /\ [][ \A k \in Swept :
             /\ \A i \in 1..Len(rateLimitMap[k].timestamps) :
                   rateLimitMap[k].timestamps[i] <= now - windowMs
             /\ rateLimitMap[k].mutedUntil = NoMute \/ rateLimitMap[k].mutedUntil <= now ]_vars
    /\ [] (rlLast.valid =>
             /\ rlLast.allowed = rlLast.unswept.allowed
             /\ rlLast.mutedUntil = rlLast.unswept.mutedUntil)

\* a call found its entry deleted where an expired mute would have been found
\* without the sweep, and was allowed
C28_Witness ==
    /\ rlLast.valid /\ rlLast.allowed
    /\ rlLast.pre = NewEntry
    /\ rlLast.unsweptPre.mutedUntil # NoMute
    /\ rlLast.unsweptPre.timestamps # <<>>


(***************************************************************************)
(* Rate limiting per (user, room) pair                                     *)
(***************************************************************************)
\* the (user, room) pair of the checkAndRecord call a step makes
Called == <<rlLast'.key[1], rlLast'.key[2]>>

\* C29: rate limiting is isolated per (user, room) pair: a checkAndRecord call
\* for (u, r) never changes the timestamp list or the mute of any other pair,
\* so a user muted in room r can still send in another room and another user
\* can still send in r.
C29_PairIsolation ==
    /\ [][ \A k \in AllKeys \ {Called} :
             /\ (k \in DOMAIN rateLimitMap') <=> (k \in DOMAIN rateLimitMap)
             /\ k \in DOMAIN rateLimitMap => rateLimitMap'[k] = rateLimitMap[k] ]_vars
    /\ [][ (~GhostMuted(Called) /\ Len(rlAllowedLog[Called]) < 5 /\ rlLast' # rlLast)
             => rlLast'.allowed ]_vars

\* u1 is muted in r1 while u1 in r2 and u2 in r1 have just been allowed
C29_Witness ==
    /\ <<"u1", "r1">> \in DOMAIN rateLimitMap
    /\ rateLimitMap[<<"u1", "r1">>].mutedUntil # NoMute
    /\ <<"u1", "r2">> \in DOMAIN rateLimitMap
    /\ rateLimitMap[<<"u1", "r2">>].timestamps # <<>>
    /\ rlLast.valid /\ rlLast.key = <<"u2", "r1">> /\ rlLast.allowed
    /\ rlLast.muteBefore = NoMute


(***************************************************************************)
(* The credential of a connection                                          *)
(***************************************************************************)
\* a location carries a credential: a non-empty value (for the header, after
\* the Bearer scheme; for the query, a single string)
AuthPresent(h) == h.auth.kind # "undefined" /\ h.auth.value # ""
BearerPresent(h) == h.header.kind = "string" /\ h.header.prefix = "Bearer "
QueryPresent(h) == h.query.kind = "string" /\ h.query.value # ""

\* C30: the credential used to authenticate a connection is the explicit auth
\* field when present, otherwise the Bearer token of the Authorization header,
\* otherwise the string query parameter, otherwise none; a lower-priority
\* location is never consulted once a higher one has yielded a credential,
\* even when the verifier then rejects that credential.
C30_CredentialPriority ==
    \A s \in Sockets :
        sockets[s].phase # "idle" =>
            LET h == sockets[s].handshake
                used == sockets[s].token
            IN  /\ AuthPresent(h) => used = h.auth
                /\ (~AuthPresent(h) /\ BearerPresent(h)) => used = Str(h.header.rest)
                /\ (~AuthPresent(h) /\ ~BearerPresent(h) /\ QueryPresent(h)) => used = h.query
                /\ (~AuthPresent(h) /\ ~BearerPresent(h) /\ ~QueryPresent(h)) => used = NoField
                /\ sockets[s].cred = ResolveUser(used)
                /\ sockets[s].user \in {NoUser, ResolveUser(used)}

\* a forged token in the auth field was rejected and the connection closed
\* although the header and the query carried valid tokens
C30_Witness ==
    /\ sockets[1].handshake = [auth |-> Str("forged"), header |-> Header("Bearer ", "jwt2"),
                               query |-> Str("jwt1")]
    /\ sockets[1].token = Str("forged")
    /\ sockets[1].phase = "closed" /\ hConn[1] = "done"
    /\ sockets[1].user = NoUser /\ presenceMap = EmptyMap


(***************************************************************************)
(* Connection and disconnection handlers of one connection                 *)
(***************************************************************************)
\* the connection is closed and handleConnection and handleDisconnect have run
BothHandlersDone(s) ==
    sockets[s].phase = "closed" /\ hConn[s] = "done" /\ hDisc[s].pc = "done"

\* C31: for every interleaving of handleConnection and handleDisconnect of one
\* connection, the case that the transport closes while the identity is still
\* being verified included, once the connection is closed and both handlers
\* have run no PresenceEntry and no reverse-index entry refers to its id.
C31_EntryDeletedOnDisconnect ==
    \A s \in Sockets :
        BothHandlersDone(s) =>
            /\ s \notin DOMAIN socketToUser
            /\ \A u \in DOMAIN presenceMap : presenceMap[u].socketId # s


(***************************************************************************)
(* Order of the message:new broadcasts of a room                           *)
(***************************************************************************)
\* C32: within one room, message:new broadcasts are issued in the creation
\* order of the messages, also when the handlers of two accepted sends
\* interleave at their awaits: when a message is broadcast for the first time,
\* no message of the room with a later creation time has been broadcast yet.
C32_BroadcastInCreationOrder ==
    [][ \A c \in 1..Len(sends) :
          FirstBroadcastStep(c) =>
             \A j \in 1..Len(messages) :
                (/\ messages[j].roomId = sends[c].roomId
                 /\ messages[j].createdAt > messages[sends[c].result.messageId].createdAt)
                => newCount[j] = 0 ]_vars


(***************************************************************************)
(* rooms:sync against concurrent sends                                     *)
(***************************************************************************)
\* the frame of a rooms:sync handler on an open connection
Syncing(s) == hEvt[s].kind = "sync" /\ sockets[s].phase = "open"

\* the rooms whose missed messages the running rooms:sync has fetched already
FetchedRooms(s) == {hEvt[s].results[i].roomId : i \in 1..Len(hEvt[s].results)}

\* the step on which getMessagesSince of the current room resolves
GapFetchStep(s) == hEvt[s].kind = "sync" /\ hEvt[s].pc = "fetch" /\ hEvt'[s].pc # "fetch"

\* C33: rooms:sync subscribes the connection to a room before the missed-message
\* fetch of that room runs, so no message created after lastSeenAt and within
\* the cap is lost between fetch and subscription: the connection is subscribed
\* while the fetch is pending and stays subscribed afterwards; the fetch step
\* replays to it every message stored by then (after lastSeenAt, up to the
\* cap); and every message broadcast for the first time, at any interleaving
\* with the sync, is delivered to every subscribed connection.
C33_NoMessageLostInGap ==
    /\ [](\A s \in Sockets :
            Syncing(s) =>
               /\ hEvt[s].pc = "fetch" => hEvt[s].rooms[hEvt[s].i].roomId \in sockets[s].rooms
               /\ FetchedRooms(s) \subseteq sockets[s].rooms)
    /\ [][ \A s \in Sockets :
             GapFetchStep(s) /\ sockets[s].phase = "open" =>
                LET room == hEvt[s].rooms[hEvt[s].i]
                    since == SinceOf(room.lastSeenAt)
                    due == Take(SelectSeq(messages, LAMBDA m :
                                   m.roomId = room.roomId /\ m.createdAt > since),
                                SyncLimit)
                IN  \A k \in 1..Len(due) :
                       \E e \in 1..Len(Emits(outbox')) :
                          /\ Emits(outbox')[e].ev = "message:new"
                          /\ Emits(outbox')[e].msg = due[k].id
                          /\ s \in Receivers(Emits(outbox')[e], sockets) ]_vars
    /\ [][ \A c \in 1..Len(sends) :
             FirstBroadcastStep(c) =>
                \A s \in Sockets :
                   sends[c].roomId \in sockets[s].rooms =>
                      \E e \in 1..Len(Emits(outbox')) :
                         /\ Emits(outbox')[e].ev = "message:new"
                         /\ Emits(outbox')[e].msg = sends[c].result.messageId
                         /\ s \in Receivers(Emits(outbox')[e], sockets) ]_vars

\* a message stored after the fetch of r1 (the replay was empty) has just been
\* broadcast and reaches the syncing connection live
C33_Witness ==
    /\ Syncing(1) /\ hEvt[1].pc = "roster"
    /\ Len(hEvt[1].results) >= 1
    /\ hEvt[1].results[1].roomId = "r1" /\ hEvt[1].results[1].messageCount = 0
    /\ \E e \in 1..Len(outbox) :
          /\ outbox[e].ev = "message:new" /\ outbox[e].scope = "room"
          /\ 1 \in Receivers(outbox[e], sockets)


(***************************************************************************)
(* Presence after the last connection of a user is gone                    *)
(***************************************************************************)
\* the connections that were bound to user u
BoundTo(u) == {s \in Sockets : sockets[s].user = u}

\* C34: whenever every connection ever bound to user u has been closed and its
\* handlers, the disconnect handler included, have run, u has no PresenceEntry
\* and appears in no RoomRoster, also when a superseded connection of u issued
\* room:join before or after the newer connection disconnected.
C34_NothingLeftAfterLastDisconnect ==
    \A u \in Users :
        (/\ BoundTo(u) # {}
         /\ \A s \in BoundTo(u) : BothHandlersDone(s) /\ hEvt[s].kind = "none")
        => /\ u \notin DOMAIN presenceMap
           /\ \A r \in DOMAIN roomUsers : u \notin roomUsers[r]


\* C35: if user u is listed in the roster of room r, the connection currently
\* bound to u in the tracker is subscribed to r, so every user shown in a roster
\* receives the room's message:new events, also right after a new connection of
\* u has superseded an older one that had joined r.
C35_RosterImpliesSubscribed ==
    \A r \in DOMAIN roomUsers :
        \A u \in roomUsers[r] :
            (/\ u \in DOMAIN presenceMap
             /\ sockets[presenceMap[u].socketId].phase = "open")
            => r \in sockets[presenceMap[u].socketId].rooms


(***************************************************************************)
(* Failed room:join and room:leave                                         *)
(***************************************************************************)
\* the step acknowledges room:join or room:leave of connection s with success: false
JoinLeaveRefused(s) ==
    \E e \in 1..Len(outbox') :
        /\ outbox'[e].scope = "ack" /\ outbox'[e].socket = s
        /\ outbox'[e].ev \in {"room:join", "room:leave"}
        /\ ~outbox'[e].ok

\* the step ends the room:join or room:leave handler of connection s
JoinLeaveEnds(s) == hEvt[s].kind \in {"join", "leave"} /\ hEvt'[s].kind = "none"

\* C36: a room:join or room:leave acknowledged with success: false has left the
\* connection's subscriptions, the user's presence room set and the rosters as
\* they were; and a handler that changed them ends only after its room:roster
\* broadcast (the step before the notice and the ack).
C36_FailedJoinLeaveChangesNothing ==
    [][ \A s \in Sockets :
          /\ JoinLeaveRefused(s) => ~hEvt[s].changed
          /\ JoinLeaveEnds(s) /\ hEvt[s].changed => hEvt[s].pc = "system" ]_vars


\* the step broadcasts a room:system notice of the given type for the event
\* of connection s
NoticeStep(s, kind, type) ==
    /\ hEvt[s].kind = kind /\ hEvt[s].pc = "system" /\ hEvt'[s].kind = "none"
    /\ \E e \in 1..Len(outbox') :
          /\ outbox'[e].ev = "room:system" /\ outbox'[e].type = type
          /\ outbox'[e].room = hEvt[s].roomId

\* C37: a room:system notice of type join is broadcast only when the event
\* changed the user from absent to present in the room's roster, one of type
\* leave only when it changed the user from present to absent: a repeated
\* room:join and a room:leave for a room the user was not in emit no notice.
C37_NoticeOnlyOnRosterChange ==
    [][ \A s \in Sockets :
          /\ NoticeStep(s, "join", "join") => hEvt[s].changed
          /\ NoticeStep(s, "leave", "leave") => hEvt[s].changed ]_vars


(***************************************************************************)
(* The place of the rate limiter in message:send                           *)
(***************************************************************************)
\* the step of call c on which isMember has resolved to true: the limiter is consulted
LimiterStep(c) ==
    /\ sends[c].pc = "isMember" /\ sends'[c].pc # "isMember"
    /\ IsMember(sends[c].userId, sends[c].roomId)
    /\ ~(sends'[c].pc = "done" /\ sends'[c].ack.error = "Send failed")

\* any other step of call c
LaterStep(c) == sends'[c] # sends[c] /\ ~LimiterStep(c)

\* the limiter has refused the call on this step
LimiterRefused(c) ==
    sends'[c].pc = "done" /\ sends'[c].ack.error \in
        {"You are muted due to rate limit violation",
         "Rate limit exceeded. You are muted for 30 seconds."}

\* C38: on message:send the rate limiter is consulted after the membership
\* check and before validation and the dedupe lookup: the step that follows a
\* positive membership check, unless the limiter refuses, appends exactly one
\* timestamp (the current time) to the (user, room) window, whether the text
\* then turns out empty or too long or the send goes on; no other step of the
\* call (the refusal of a non-member, replay, storage, reload, failure)
\* touches the window.
C38_LimiterBeforeValidation ==
    [][ \A c \in 1..Len(sends) :
          LET k == RLKey(sends[c].userId, sends[c].roomId)
              f == RLFiltered(RLGet(k), now)
          IN  /\ LimiterStep(c) /\ ~LimiterRefused(c) =>
                    /\ k \in DOMAIN rateLimitMap'
                    /\ rateLimitMap'[k].timestamps = Append(f.timestamps, now)
                    /\ sends'[c].pc \in {"findUnique", "done"}
              /\ LaterStep(c) => rateLimitMap' = rateLimitMap ]_vars

\* two sends of a member are over, one refused for its empty text and one
\* failed in storage, and the window holds a timestamp for each
C38_Witness ==
    /\ Len(sends) = 2
    /\ \E c, d \in 1..2 :
          /\ sends[c].pc = "done" /\ sends[c].ack.error = "Message cannot be empty"
          /\ sends[d].pc = "done" /\ sends[d].ack.error = "Send failed"
          /\ sends[c].roomId = "r1" /\ sends[d].roomId = "r1"
    /\ RLKey("u2", "r1") \in DOMAIN rateLimitMap
    /\ Len(rateLimitMap[RLKey("u2", "r1")].timestamps) = 2


(***************************************************************************)
(* Events on a connection without a bound user                             *)
(***************************************************************************)
ClientEvents == {"rooms:sync", "room:join", "room:leave", "message:send",
                 "presence:ping", "typing:update"}

\* a step taken for connection s while it is open without a bound user, other
\* than a step of its connection handlers: the receipt of a client event
UnboundEventStep(s) ==
    /\ sockets[s].phase = "open" /\ sockets[s].user = NoUser
    /\ sockets'[s].phase = "open" /\ sockets'[s].user = NoUser
    /\ hConn' = hConn /\ hDisc' = hDisc

\* C39: every client event received on a connection that has no bound user is
\* acknowledged with success: false and error Unauthorized, changes no
\* presence, subscription, rate-limit or message state, starts no handler work
\* and emits no event to any connection.
C39_UnboundIsUnauthorized ==
    [][ \A s \in Sockets :
          UnboundEventStep(s) =>
             /\ \E ev \in ClientEvents : outbox' = <<AckOf(ev, s, FALSE, "Unauthorized")>>
             /\ UNCHANGED <<presenceVars, rateVars, storeVars, newCount>>
             /\ sockets' = sockets
             /\ hEvt' = hEvt
             /\ \A c \in 1..Len(sends') :
                   IF c \in 1..Len(sends) THEN sends'[c] = sends[c]
                   ELSE sends'[c].pc = "done" /\ sends'[c].ack.error = "Unauthorized" ]_vars

\* an event was refused while handleConnection still awaits the authentication
C39_Witness ==
    /\ sockets[1].phase = "open" /\ hConn[1] = "auth" /\ sockets[1].user = NoUser
    /\ \E ev \in ClientEvents : outbox = <<AckOf(ev, 1, FALSE, "Unauthorized")>>

====
